---- MODULE Spec2Model ----
(***************************************************************************)
(* SafeRide: the ride route (ride sessions), the monitor route (location   *)
(* updates, threat assessment, escalation) and the safety engine.          *)
(*                                                                         *)
(* Numbers.  A factor or a score f in [0,1] is the integer f * ScoreOne.   *)
(* ScoreOne is divisible by 3 (suspicious stops count thirds) and by the   *)
(* denominators of the weights, so the weighted sum is exact.              *)
(* Geometry.  A Location is a point x (metres) on a line with a timestamp  *)
(* (ms); calculateDistance is the distance on that line.                   *)
(* Objects.  Session objects, history arrays and deviation points are      *)
(* heap cells named by their index, so that two holders of one array see   *)
(* each other's writes, as they do in the program.                         *)
(***************************************************************************)
EXTENDS Integers, Sequences, FiniteSets, TLC

\* ------------------------------------------------------------------ bounds
MaxRequests == 2
MaxRideRequests == 3
MaxConcRequests == 2
MaxNotifyRequests == 2
MaxCapsRequests == 2
MaxForceRequests == 2
MaxPanicRequests == 2
MaxDispatchRequests == 2
MaxDeviationRequests == 3
MaxDisabledRequests == 2
MaxUnknownRequests == 2
MaxCreateRequests == 3
MaxDurationRequests == 3
MaxDurationTime == 15000
MaxDeviationTime == 30000
MaxTime == 10000

\* --------------------------------------------------------------- constants
ScoreOne == 300000
SAFE_CORRIDOR_RADIUS == 100
SUSPICIOUS_STOP_DURATION == 60000
LOCATION_UPDATE_INTERVAL == 10000
SOFT_ALERT == 120000
SILENT_DISPATCH == 210000
EMERGENCY_ESCALATION == 270000
LOW_LEVEL == 60000
MaxLocationHistory == 100
MaxThreatHistory == 50
DeviationRetention == 600000
RecentDeviationWindow == 300000

NULL == [null |-> TRUE]

Abs(a) == IF a < 0 THEN -a ELSE a
Min(a, b) == IF a < b THEN a ELSE b
Max(a, b) == IF a > b THEN a ELSE b

Last(s) == s[Len(s)]

\* slice(-n): the last n elements, in order
SliceLast(s, n) == IF Len(s) <= n THEN s ELSE SubSeq(s, Len(s) - n + 1, Len(s))

\* ---------------------------------------------------------------- geometry
calculateDistance(point1, point2) == Abs(point1.x - point2.x)

\* the nearest point of the segment is its start when the projection
\* parameter dot/lenSq is negative (or the segment is degenerate: param = -1),
\* its end when the parameter exceeds 1, and the projection otherwise
pointToLineSegmentDistance(point, lineStart, lineEnd) ==
    LET A == point.x - lineStart.x
        C == lineEnd.x - lineStart.x
        dot == A * C
        lenSq == C * C
        nearest == IF lenSq = 0 \/ dot < 0 THEN lineStart.x
                   ELSE IF dot > lenSq THEN lineEnd.x
                   ELSE point.x
    IN  calculateDistance(point, [x |-> nearest, timestamp |-> 0])

\* a route has at least one waypoint; the minimum over waypoints and segments
distanceFromRoute(point, route) ==
    LET W == route.waypoints
        ds == {calculateDistance(point, W[i]) : i \in 1..Len(W)}
              \cup {pointToLineSegmentDistance(point, W[i], W[i + 1]) : i \in 1..(Len(W) - 1)}
    IN  CHOOSE d \in ds : \A e \in ds : d <= e

\* ----------------------------------------------------------- mock data
\* mockHighRiskZones, placed on the line in the order of their latitude
mockHighRiskZones ==
    << [id |-> "hrz-4", center |-> [x |-> 1100, timestamp |-> 0], radius |-> 350, riskLevel |-> 180000],
       [id |-> "hrz-3", center |-> [x |-> 2800, timestamp |-> 0], radius |-> 400, riskLevel |-> 240000],
       [id |-> "hrz-1", center |-> [x |-> 3800, timestamp |-> 0], radius |-> 500, riskLevel |-> 210000],
       [id |-> "hrz-2", center |-> [x |-> 5300, timestamp |-> 0], radius |-> 300, riskLevel |-> 150000] >>

mockEmergencyContacts ==
    << [id |-> "ec-1", email |-> TRUE, notified |-> FALSE, notifiedAt |-> 0],
       [id |-> "ec-2", email |-> TRUE, notified |-> FALSE, notifiedAt |-> 0],
       [id |-> "ec-3", email |-> TRUE, notified |-> FALSE, notifiedAt |-> 0] >>

\* ------------------------------------------------------- factor calculators
RECURSIVE SumDurations(_, _)
SumDurations(ds, i) ==
    IF i > Len(ds) THEN 0 ELSE ds[i].duration + SumDurations(ds, i + 1)

\* a deviation score whose distance component is normalized to 500 m
calculateRouteDeviationScoreShortCap(currentLocation, confirmedRoute, deviationHistory, clock) ==
    LET currentDistance == distanceFromRoute(currentLocation, confirmedRoute)
        distanceScore == Min(currentDistance * (ScoreOne \div 500), ScoreOne)
        Recent(d) == clock - d.timestamp < RecentDeviationWindow
        recentDeviations == SelectSeq(deviationHistory, Recent)
        totalDeviationTime == SumDurations(recentDeviations, 1)
        timeScore == (Min(totalDeviationTime, RecentDeviationWindow) * (ScoreOne \div 1000))
                         \div (RecentDeviationWindow \div 1000)
    IN  IF currentDistance <= SAFE_CORRIDOR_RADIUS THEN 0
        ELSE Min((distanceScore * 6 + timeScore * 4) \div 10, ScoreOne)

calculateRouteDeviationScore(currentLocation, confirmedRoute, deviationHistory, clock) ==
    LET currentDistance == distanceFromRoute(currentLocation, confirmedRoute)
        distanceScore == Min(currentDistance * (ScoreOne \div 1000), ScoreOne)
        Recent(d) == clock - d.timestamp < RecentDeviationWindow
        recentDeviations == SelectSeq(deviationHistory, Recent)
        totalDeviationTime == SumDurations(recentDeviations, 1)
        \* Math.min(totalDeviationTime / 300000, 1), clamped before scaling
        timeScore == (Min(totalDeviationTime, RecentDeviationWindow) * (ScoreOne \div 1000))
                         \div (RecentDeviationWindow \div 1000)
    IN  IF currentDistance <= SAFE_CORRIDOR_RADIUS THEN 0
        ELSE Min((distanceScore * 6 + timeScore * 4) \div 10, ScoreOne)

\* one iteration of the loop of calculateSuspiciousStopsScore, for index i, from
\* the running stop duration and the stop count in prev
\* a scan step that counts a stop of exactly SUSPICIOUS_STOP_DURATION
StopStepInclusive(h, i, prev) ==
    LET distance == calculateDistance(h[i - 1], h[i])
        timeDiff == h[i].timestamp - h[i - 1].timestamp
        slow == IF timeDiff > 0 THEN distance * 1000 < timeDiff ELSE TRUE
    IN  IF slow
        THEN [cur |-> prev.cur + timeDiff, count |-> prev.count]
        ELSE [cur |-> 0,
              count |-> IF prev.cur >= SUSPICIOUS_STOP_DURATION
                        THEN prev.count + 1 ELSE prev.count]

StopStep(h, i, prev) ==
    LET distance == calculateDistance(h[i - 1], h[i])
        timeDiff == h[i].timestamp - h[i - 1].timestamp
        \* speed = timeDiff > 0 ? distance / (timeDiff / 1000) : 0;  speed < 1
        slow == IF timeDiff > 0 THEN distance * 1000 < timeDiff ELSE TRUE
    IN  IF slow
        THEN [cur |-> prev.cur + timeDiff, count |-> prev.count]
        ELSE [cur |-> 0,
              count |-> IF prev.cur > SUSPICIOUS_STOP_DURATION
                        THEN prev.count + 1 ELSE prev.count]

\* the iterations lo..hi in order: the first half, then the second from where
\* the first ended (the test on half.count only orders the evaluation: the first
\* half is finished before the second starts; a count is never negative)
RECURSIVE StopLoop(_, _, _, _)
StopLoop(h, lo, hi, st) ==
    IF lo > hi THEN st
    ELSE IF lo = hi THEN StopStep(h, lo, st)
    ELSE LET mid == (lo + hi) \div 2
             half == StopLoop(h, lo, mid, st)
         IN  IF half.count >= 0 THEN StopLoop(h, mid + 1, hi, half) ELSE half

StopScan(h) ==
    LET end == StopLoop(h, 2, Len(h), [cur |-> 0, count |-> 0])
    IN  \* the stop still open at the end of the history
        IF end.cur > SUSPICIOUS_STOP_DURATION THEN end.count + 1 ELSE end.count

calculateSuspiciousStopsScore(locationHistory) ==
    IF Len(locationHistory) < 2 THEN 0
    ELSE Min((StopScan(locationHistory) * ScoreOne) \div 3, ScoreOne)

ZoneRisk(currentLocation, zone) ==
    LET distance == calculateDistance(currentLocation, zone.center)
    IN  IF distance <= zone.radius THEN zone.riskLevel
        ELSE IF distance <= zone.radius * 2
             THEN (zone.riskLevel * (2 * zone.radius - distance)) \div zone.radius
             ELSE 0

\* a loop that adds the zones' risks up
RECURSIVE MaxRiskFromSummed(_, _, _, _)
MaxRiskFromSummed(currentLocation, zones, i, maxRisk) ==
    IF i > Len(zones) THEN maxRisk
    ELSE MaxRiskFromSummed(currentLocation, zones, i + 1,
                           maxRisk + ZoneRisk(currentLocation, zones[i]))

RECURSIVE MaxRiskFrom(_, _, _, _)
MaxRiskFrom(currentLocation, zones, i, maxRisk) ==
    IF i > Len(zones) THEN maxRisk
    ELSE MaxRiskFrom(currentLocation, zones, i + 1,
                     Max(maxRisk, ZoneRisk(currentLocation, zones[i])))

calculateHighRiskZoneScore(currentLocation, highRiskZones) ==
    MaxRiskFrom(currentLocation, highRiskZones, 1, 0)

\* a score that is already 0.8 at exactly 60 s without an update
calculateLocationDisabledScoreInclusive(locationEnabled, timeSinceLastUpdate) ==
    IF locationEnabled /\ timeSinceLastUpdate < 30000 THEN 0
    ELSE IF ~locationEnabled THEN ScoreOne
    ELSE IF timeSinceLastUpdate >= 60000 THEN (8 * ScoreOne) \div 10
    ELSE IF timeSinceLastUpdate > 30000 THEN (4 * ScoreOne) \div 10
    ELSE 0

calculateLocationDisabledScore(locationEnabled, timeSinceLastUpdate) ==
    IF locationEnabled /\ timeSinceLastUpdate < 30000 THEN 0
    ELSE IF ~locationEnabled THEN ScoreOne
    ELSE IF timeSinceLastUpdate > 60000 THEN (8 * ScoreOne) \div 10
    ELSE IF timeSinceLastUpdate > 30000 THEN (4 * ScoreOne) \div 10
    ELSE 0

\* -------------------------------------------------------- threat assessment
\* a classification that takes a score of exactly 0.2 for 'low'
LevelOfInclusive(score) ==
    IF score >= EMERGENCY_ESCALATION THEN "critical"
    ELSE IF score >= SILENT_DISPATCH THEN "high"
    ELSE IF score >= SOFT_ALERT THEN "medium"
    ELSE IF score >= LOW_LEVEL THEN "low"
    ELSE "safe"

LevelOf(score) ==
    IF score >= EMERGENCY_ESCALATION THEN "critical"
    ELSE IF score >= SILENT_DISPATCH THEN "high"
    ELSE IF score >= SOFT_ALERT THEN "medium"
    ELSE IF score > LOW_LEVEL THEN "low"
    ELSE "safe"

ActionOf(score) ==
    IF score >= EMERGENCY_ESCALATION THEN "emergency_escalation"
    ELSE IF score >= SILENT_DISPATCH THEN "silent_dispatch"
    ELSE IF score >= SOFT_ALERT THEN "log"
    ELSE "none"

\* a weighted sum whose weights add up to 1.1
WeightedScoreHeavy(factors) ==
    (factors.routeDeviation * 4 + factors.suspiciousStops * 3
     + factors.highRiskZone * 2 + factors.locationDisabled * 2) \div 10

\* the weighted sum, with THREAT_WEIGHTS 0.4, 0.3, 0.2 and 0.1
WeightedScore(factors) ==
    (factors.routeDeviation * 4 + factors.suspiciousStops * 3
     + factors.highRiskZone * 2 + factors.locationDisabled * 1) \div 10

\* an assessment that takes an unknown location for a location on the route
assessThreatUnknownIsSafe(currentLocation, confirmedRoute, locationHistory, deviationHistory, highRiskZones, locationEnabled, lastUpdateTime, clock) ==
    LET timeSinceLastUpdate == clock - lastUpdateTime
        factors ==
            [routeDeviation |->
                 IF currentLocation # NULL
                 THEN calculateRouteDeviationScore(currentLocation, confirmedRoute,
                                                   deviationHistory, clock)
                 ELSE 0,
             suspiciousStops |-> calculateSuspiciousStopsScore(locationHistory),
             highRiskZone |->
                 IF currentLocation # NULL
                 THEN calculateHighRiskZoneScore(currentLocation, highRiskZones)
                 ELSE 0,
             locationDisabled |->
                 calculateLocationDisabledScore(locationEnabled, timeSinceLastUpdate)]
        score == WeightedScore(factors)
    IN  [timestamp |-> clock, score |-> score, factors |-> factors,
         level |-> LevelOf(score), action |-> ActionOf(score)]

assessThreat(currentLocation, confirmedRoute, locationHistory, deviationHistory, highRiskZones, locationEnabled, lastUpdateTime, clock) ==
    LET timeSinceLastUpdate == clock - lastUpdateTime
        factors ==
            [routeDeviation |->
                 IF currentLocation # NULL
                 THEN calculateRouteDeviationScore(currentLocation, confirmedRoute,
                                                   deviationHistory, clock)
                 ELSE ScoreOne \div 2,
             suspiciousStops |-> calculateSuspiciousStopsScore(locationHistory),
             highRiskZone |->
                 IF currentLocation # NULL
                 THEN calculateHighRiskZoneScore(currentLocation, highRiskZones)
                 ELSE 0,
             locationDisabled |->
                 calculateLocationDisabledScore(locationEnabled, timeSinceLastUpdate)]
        score == WeightedScore(factors)
    IN  [timestamp |-> clock, score |-> score, factors |-> factors,
         level |-> LevelOf(score), action |-> ActionOf(score)]

\* ------------------------------------------------- community reports
MAX_WEIGHT == 30000
MIN_TRUST_SCORE == 90000
MIN_CONSENSUS == 3
DECAY_DAYS == 30

\* mockCommunityReports, made when the server starts (time 0)
mockCommunityReports ==
    << [id |-> "cr-1", reporterId |-> "user-123", reporterTrustScore |-> 255000,
        location |-> [x |-> 4400, timestamp |-> -3600000], type |-> "unsafe_area",
        timestamp |-> -3600000, isVerified |-> TRUE],
       [id |-> "cr-2", reporterId |-> "user-456", reporterTrustScore |-> 276000,
        location |-> [x |-> 3300, timestamp |-> -7200000], type |-> "safe_area",
        timestamp |-> -7200000, isVerified |-> TRUE],
       [id |-> "cr-3", reporterId |-> "user-789", reporterTrustScore |-> 225000,
        location |-> [x |-> 5000, timestamp |-> -14400000], type |-> "incident",
        timestamp |-> -14400000, isVerified |-> TRUE] >>

\* a validation that tests the reporting frequency before the trust score
validateCommunityReportFrequencyFirst(report, existingReports, clock) ==
    LET SameReporterRecent(r) == /\ r.reporterId = report.reporterId
                                 /\ clock - r.timestamp < 86400000
        InSameArea(r) == calculateDistance(r.location, report.location) < 500
        RecentInArea(r) == InSameArea(r) /\ clock - r.timestamp < 3600000
        Consensus(r) == InSameArea(r) /\ r.type = report.type /\ r.isVerified
        \* ageInDays / DECAY_DAYS, from the age in seconds
        ageSeconds == (clock - report.timestamp) \div 1000
        decayFactor == Max(0, ScoreOne - ((ageSeconds * 100) \div ((864 * DECAY_DAYS) \div 30)))
        hasConsensus == Len(SelectSeq(existingReports, Consensus)) >= MIN_CONSENSUS
        \* MAX_WEIGHT * decayFactor * reporterTrustScore
        decayed == (MAX_WEIGHT * (decayFactor \div 100)) \div (ScoreOne \div 100)
        full == (decayed * (report.reporterTrustScore \div 100)) \div (ScoreOne \div 100)
    IN  IF Len(SelectSeq(existingReports, SameReporterRecent)) > 5
        THEN [valid |-> FALSE, weight |-> 0, reason |-> "Suspicious reporting frequency"]
        ELSE IF report.reporterTrustScore < MIN_TRUST_SCORE
        THEN [valid |-> FALSE, weight |-> 0, reason |-> "Reporter trust score too low"]
        ELSE IF Len(SelectSeq(existingReports, RecentInArea)) > 10
        THEN [valid |-> FALSE, weight |-> 0, reason |-> "Possible coordinated manipulation"]
        ELSE [valid |-> TRUE,
              weight |-> IF hasConsensus THEN full ELSE (full * 3) \div 10,
              reason |-> "none"]

validateCommunityReport(report, existingReports, clock) ==
    LET SameReporterRecent(r) == /\ r.reporterId = report.reporterId
                                 /\ clock - r.timestamp < 86400000
        InSameArea(r) == calculateDistance(r.location, report.location) < 500
        RecentInArea(r) == InSameArea(r) /\ clock - r.timestamp < 3600000
        Consensus(r) == InSameArea(r) /\ r.type = report.type /\ r.isVerified
        \* ageInDays / DECAY_DAYS, from the age in seconds
        ageSeconds == (clock - report.timestamp) \div 1000
        decayFactor == Max(0, ScoreOne - ((ageSeconds * 100) \div ((864 * DECAY_DAYS) \div 30)))
        hasConsensus == Len(SelectSeq(existingReports, Consensus)) >= MIN_CONSENSUS
        \* MAX_WEIGHT * decayFactor * reporterTrustScore
        decayed == (MAX_WEIGHT * (decayFactor \div 100)) \div (ScoreOne \div 100)
        full == (decayed * (report.reporterTrustScore \div 100)) \div (ScoreOne \div 100)
    IN  IF report.reporterTrustScore < MIN_TRUST_SCORE
        THEN [valid |-> FALSE, weight |-> 0, reason |-> "Reporter trust score too low"]
        ELSE IF Len(SelectSeq(existingReports, SameReporterRecent)) > 5
        THEN [valid |-> FALSE, weight |-> 0, reason |-> "Suspicious reporting frequency"]
        ELSE IF Len(SelectSeq(existingReports, RecentInArea)) > 10
        THEN [valid |-> FALSE, weight |-> 0, reason |-> "Possible coordinated manipulation"]
        ELSE [valid |-> TRUE,
              weight |-> IF hasConsensus THEN full ELSE (full * 3) \div 10,
              reason |-> "none"]

RECURSIVE SumFrom(_, _)
SumFrom(terms, i) == IF i > Len(terms) THEN 0 ELSE terms[i] + SumFrom(terms, i + 1)

\* a route score whose community influence is not limited to MAX_WEIGHT
calculateRouteSafetyScoreUncapped(route, highRiskZones, communityReports, clock) ==
    LET W == route.waypoints
        ZoneAt(i) == calculateHighRiskZoneScore(W[i], highRiskZones)
        riskScore == SumFrom([i \in 1..Len(W) |-> ZoneAt(i)], 1) \div Len(W)
        Valid(r) == validateCommunityReport(r, communityReports, clock).valid
        validReports == SelectSeq(communityReports, Valid)
        Influence(k) ==
            LET report == validReports[k]
                weight == validateCommunityReport(report, communityReports, clock).weight
                Near(i) == IF calculateDistance(W[i], report.location) < 500
                           THEN IF report.type = "unsafe_area" THEN 2 * weight ELSE -weight
                           ELSE 0
            IN  SumFrom([i \in 1..Len(W) |-> Near(i)], 1)
        \* twice the sum, so that half a weight is a whole number
        communityRisk2 == SumFrom([k \in 1..Len(validReports) |-> Influence(k)], 1)
        communityRisk == Max(0, communityRisk2 \div (2 * Len(W)))
        safetyScore == ScoreOne - ((riskScore * 9) \div 10 + communityRisk)
    IN  Max(0, Min(safetyScore, ScoreOne))

calculateRouteSafetyScore(route, highRiskZones, communityReports, clock) ==
    LET W == route.waypoints
        ZoneAt(i) == calculateHighRiskZoneScore(W[i], highRiskZones)
        riskScore == SumFrom([i \in 1..Len(W) |-> ZoneAt(i)], 1) \div Len(W)
        Valid(r) == validateCommunityReport(r, communityReports, clock).valid
        validReports == SelectSeq(communityReports, Valid)
        Influence(k) ==
            LET report == validReports[k]
                weight == validateCommunityReport(report, communityReports, clock).weight
                Near(i) == IF calculateDistance(W[i], report.location) < 500
                           THEN IF report.type = "unsafe_area" THEN 2 * weight ELSE -weight
                           ELSE 0
            IN  SumFrom([i \in 1..Len(W) |-> Near(i)], 1)
        \* twice the sum, so that half a weight is a whole number
        communityRisk2 == SumFrom([k \in 1..Len(validReports) |-> Influence(k)], 1)
        communityRisk == Max(0, Min(communityRisk2 \div (2 * Len(W)), MAX_WEIGHT))
        safetyScore == ScoreOne - ((riskScore * 9) \div 10 + communityRisk)
    IN  Max(0, Min(safetyScore, ScoreOne))

\* Compare route IDs, then waypoints with a 50 m tolerance
detectRouteSwitching(originalRoute, currentRoute) ==
    IF currentRoute = NULL THEN FALSE
    ELSE IF originalRoute.id # currentRoute.id THEN TRUE
    ELSE IF Len(originalRoute.waypoints) # Len(currentRoute.waypoints) THEN TRUE
    ELSE \E i \in 1..Len(originalRoute.waypoints) :
            calculateDistance(originalRoute.waypoints[i], currentRoute.waypoints[i]) > 50

\* ------------------------------------------------------------------- state
SessionIds == {"ride-1"}
ProcIds == {1, 2}
TickSteps == {10000}

VARIABLES
    now,                 \* Date.now()
    nreq,                \* requests received so far
    rideSessions,        \* the ride route's Map: session id -> session or NULL
    monitorSessions,     \* the monitor route's Map: session id -> session object (0: none)
    sessions,            \* heap of the monitor's session objects
    locArrays,           \* heap of locationHistory arrays
    threatArrays,        \* heap of threatHistory arrays
    deviationHistories,  \* the monitor's Map: session id -> deviation array (0: none)
    devArrays,           \* heap of DeviationPoint[] arrays (of deviation point refs)
    devPoints,           \* heap of DeviationPoint objects
    silentDispatches,    \* the monitor's Map of dispatch records, in insertion order
    inflight,            \* per request slot: the handler suspended at an await, or idle
    delivered,           \* the mailbox: alert emails delivered per (session, contact)
    reply                \* the response of the last request answered

vars == << now, nreq, rideSessions, monitorSessions, sessions, locArrays, threatArrays,
           deviationHistories, devArrays, devPoints, silentDispatches, inflight,
           delivered, reply >>

Idle == [pc |-> "idle"]

ContactIds == {"ec-1", "ec-2", "ec-3"}

Init ==
    /\ now = 0
    /\ nreq = 0
    /\ rideSessions = [s \in SessionIds |-> NULL]
    /\ monitorSessions = [s \in SessionIds |-> 0]
    /\ sessions = << >>
    /\ locArrays = << >>
    /\ threatArrays = << >>
    /\ deviationHistories = [s \in SessionIds |-> 0]
    /\ devArrays = << >>
    /\ devPoints = << >>
    /\ silentDispatches = << >>
    /\ inflight = [p \in ProcIds |-> Idle]
    /\ delivered = [s \in SessionIds |-> [c \in ContactIds |-> 0]]
    /\ reply = NULL

\* the values of the deviation points an array holds
DevValues(D, P, ref) == [i \in 1..Len(D[ref]) |-> P[D[ref][i]]]

\* ------------------------------------------------------------ what clients send
Loc(x, t) == [x |-> x, timestamp |-> t]

\* the routes the routing provider answers with
RouteWaypoints ==
    [r \in {"route-0", "route-1"} |->
        IF r = "route-0" THEN << Loc(200, 0), Loc(800, 0), Loc(1400, 0) >>
        ELSE << Loc(200, 0), Loc(-400, 0), Loc(1400, 0) >>]

ClientRoute(id) == [id |-> id, waypoints |-> RouteWaypoints[id], safetyScore |-> ScoreOne \div 2]

\* a history with three stops of more than 60 s, the last one still open
StopsHistory ==
    << Loc(200, -190000), Loc(200, -129000), Loc(300, -128000), Loc(300, -67000),
       Loc(400, -66000), Loc(400, -5000) >>

\* histories at their caps: 100 locations, 50 assessments
FullLocationHistory == [i \in 1..MaxLocationHistory |-> Loc(200 + i, i - 200)]

FullThreatHistory ==
    [i \in 1..MaxThreatHistory |->
        [timestamp |-> i - 200, score |-> 0,
         factors |-> [routeDeviation |-> 0, suspiciousStops |-> 0,
                      highRiskZone |-> 0, locationDisabled |-> 0],
         level |-> "safe", action |-> "none"]]

ClientContacts == SubSeq(mockEmergencyContacts, 1, 2)

\* the session a client puts in the request body (JSON: a fresh object on arrival)
ClientSession(sessionId, kind) ==
    [id |-> sessionId,
     status |-> "active",
     confirmedRoute |-> ClientRoute(IF kind = "switched" THEN "route-1" ELSE "route-0"),
     alternativeRoutes |-> << ClientRoute("route-0"), ClientRoute("route-1") >>,
     startTime |-> 0,
     locationHistory |-> IF kind = "stops" THEN StopsHistory
                         ELSE IF kind = "full" THEN FullLocationHistory
                         ELSE IF kind = "nohistory" THEN << >>
                         ELSE << Loc(200, 0) >>,
     threatHistory |-> IF kind = "full" THEN FullThreatHistory ELSE << >>,
     emergencyContacts |-> IF kind = "noemail"
                           THEN [ClientContacts EXCEPT ![1].email = FALSE]
                           ELSE ClientContacts]

\* the request body carries a session of one of the kinds, or none
Snapshots(sessionId, kinds) == {NULL} \cup {ClientSession(sessionId, k) : k \in kinds}

ClientLocations == {Loc(600, now), Loc(2800, now)}

\* ------------------------------------------------------------ monitor route
\* const session = clientSession || rideSessions.get(sessionId): a client
\* session is a new object with new arrays, a stored one is the stored object
Resolve(sessionId, clientSession) ==
    IF clientSession # NULL
    THEN [found |-> TRUE,
          obj |-> Len(sessions) + 1,
          S |-> Append(sessions,
                       [clientSession EXCEPT !.locationHistory = Len(locArrays) + 1,
                                             !.threatHistory = Len(threatArrays) + 1]),
          L |-> Append(locArrays, clientSession.locationHistory),
          T |-> Append(threatArrays, clientSession.threatHistory)]
    ELSE [found |-> monitorSessions[sessionId] # 0,
          obj |-> monitorSessions[sessionId],
          S |-> sessions, L |-> locArrays, T |-> threatArrays]

\* a request is taken up when fewer than limit handlers are suspended and fewer
\* than maxReq requests have arrived; it runs in the lowest free slot
Busy == {p \in ProcIds : inflight[p].pc # "idle"}

FreeSlot(env) ==
    IF Cardinality(Busy) < env.limit /\ nreq < env.maxReq
    THEN {CHOOSE p \in ProcIds \ Busy : \A q \in ProcIds \ Busy : p <= q}
    ELSE {}

\* an unknown session answered like an unknown action
NotFoundAsInvalid(kind) == [status |-> 400, kind |-> kind, error |-> "Invalid action"]

NotFound(kind) == [status |-> 404, kind |-> kind, error |-> "Session not found"]

Qualifies(action) == action \in {"silent_dispatch", "emergency_escalation"}

\* the first contact from index i on that the loop of handleEscalation sends to
RECURSIVE NextToNotify(_, _)
NextToNotify(contacts, i) ==
    IF i > Len(contacts) THEN 0
    ELSE IF ~contacts[i].notified /\ contacts[i].email THEN i
    ELSE NextToNotify(contacts, i + 1)

NotifiedIds(contacts) ==
    LET IsNotified(c) == c.notified
        sel == SelectSeq(contacts, IsNotified)
    IN  [i \in 1..Len(sel) |-> sel[i].id]

\* currentLocation || session.locationHistory[session.locationHistory.length - 1]
LastKnown(run, S, L) ==
    LET h == L[S[run.session].locationHistory]
    IN  IF run.location # NULL THEN run.location
        ELSE IF Len(h) > 0 THEN Last(h) ELSE NULL

\* emergency services notified for every escalation that notifies contacts
EmergencyServicesOnDispatch(threatAssessment) == Qualifies(threatAssessment.action)

\* threatAssessment.action === 'emergency_escalation'
EmergencyServices(threatAssessment) == threatAssessment.action = "emergency_escalation"

\* handleEscalation from the contact loop at index run.i on, up to its next
\* await (sendAlertEmail) or to its end; S, L, M are the session heap, the
\* location arrays and the session Map as the handler has left them
Escalate(p, run, S, L, M) ==
    LET session == S[run.session]
        j == IF Qualifies(run.threat.action)
             THEN NextToNotify(session.emergencyContacts, run.i) ELSE 0
        last == LastKnown(run, S, L)
        actions == IF EmergencyServices(run.threat)
                   THEN Append(run.actions, [tag |-> "EMERGENCY_SERVICES_112_NOTIFIED"])
                   ELSE run.actions
        dispatch == [id |-> run.dispatchId,
                     sessionId |-> session.id,
                     triggeredAt |-> now,
                     threatScore |-> run.threat.score,
                     lastKnownLocation |-> last,
                     liveUpdates |-> IF run.location # NULL THEN << run.location >> ELSE << >>,
                     emergencyServicesNotified |-> EmergencyServices(run.threat),
                     contactsNotified |-> NotifiedIds(session.emergencyContacts),
                     evidencePacket |-> run.evidencePacket]
    IN  IF j # 0 /\ last = NULL
        THEN \* sendAlertEmail reads location.lat of undefined: the request fails
             /\ sessions' = S
             /\ monitorSessions' = M
             /\ inflight' = [inflight EXCEPT ![p] = Idle]
             /\ reply' = [status |-> 500, kind |-> run.kind, error |-> "TypeError"]
             /\ UNCHANGED silentDispatches
        ELSE IF j # 0
        THEN /\ sessions' = S
             /\ monitorSessions' = M
             /\ inflight' = [inflight EXCEPT ![p] = [run EXCEPT !.pc = "await", !.i = j]]
             /\ UNCHANGED << silentDispatches, reply >>
        ELSE /\ silentDispatches' = Append(silentDispatches, dispatch)
             /\ sessions' = [S EXCEPT ![run.session].status = "emergency"]
             /\ monitorSessions' = [M EXCEPT ![session.id] = run.session]
             /\ inflight' = [inflight EXCEPT ![p] = Idle]
             /\ reply' = [status |-> 200, kind |-> run.kind,
                          threatAssessment |-> run.threat,
                          escalation |-> [dispatchId |-> run.dispatchId,
                                          actions |-> actions,
                                          evidencePacket |-> run.evidencePacket]]

\* the start of handleEscalation: the dispatch id, the evidence packet (which
\* holds the session's arrays, not copies) and the first action
handleEscalation(p, kind, obj, threatAssessment, currentLocation, S, L, M, DH) ==
    LET session == S[obj]
        run == [pc |-> "run", kind |-> kind, session |-> obj,
                threat |-> threatAssessment, location |-> currentLocation,
                dispatchId |-> nreq + 1,
                evidencePacket |->
                    [sessionId |-> session.id,
                     timestamp |-> now,
                     gpsHistory |-> session.locationHistory,
                     deviationPoints |-> DH[session.id],
                     threatAssessments |-> session.threatHistory,
                     escalationReason |-> [level |-> threatAssessment.level,
                                           score |-> threatAssessment.score],
                     emergencyContactsNotified |-> << >>],
                actions |-> IF Qualifies(threatAssessment.action)
                            THEN << [tag |-> "LIVE_LOCATION_TRACKING_STARTED"] >>
                            ELSE << >>,
                i |-> 1,
                \* history variable: the contacts as the run found them
                before |-> session.emergencyContacts]
    IN  Escalate(p, run, S, L, M)

\* a handler that logs the failure of a send but marks the contact all the same
AfterSendMarksFailed(run, S, i, success) ==
    LET contact == S[run.session].emergencyContacts[i]
    IN  [run |-> [run EXCEPT
                     !.actions = Append(@, [tag |-> IF success THEN "EMAIL_SENT"
                                                    ELSE "EMAIL_FAILED",
                                            contact |-> contact.id]),
                     !.evidencePacket.emergencyContactsNotified =
                         IF success THEN Append(@, contact.id) ELSE @,
                     !.i = i + 1],
         S |-> [S EXCEPT ![run.session].emergencyContacts[i].notified = TRUE,
                         ![run.session].emergencyContacts[i].notifiedAt = now]]

\* if (emailResult.success) { ... } else { ... } for the contact at index i:
\* the run and the session heap after it
AfterSend(run, S, i, success) ==
    LET contact == S[run.session].emergencyContacts[i]
    IN  IF success
        THEN [run |-> [run EXCEPT
                          !.actions = Append(@, [tag |-> "EMAIL_SENT", contact |-> contact.id]),
                          !.evidencePacket.emergencyContactsNotified = Append(@, contact.id),
                          !.i = i + 1],
              S |-> [S EXCEPT ![run.session].emergencyContacts[i].notified = TRUE,
                              ![run.session].emergencyContacts[i].notifiedAt = now]]
        ELSE [run |-> [run EXCEPT
                          !.actions = Append(@, [tag |-> "EMAIL_FAILED", contact |-> contact.id]),
                          !.i = i + 1],
              S |-> S]

\* sendAlertEmail returns to the handler suspended in slot p
EmailResult(p, success) ==
    /\ inflight[p].pc = "await"
    /\ LET run == inflight[p]
           contact == sessions[run.session].emergencyContacts[run.i]
           sid == sessions[run.session].id
           after == AfterSend(run, sessions, run.i, success)
       IN  /\ delivered' = IF success
                           THEN [delivered EXCEPT ![sid][contact.id] = @ + 1]
                           ELSE delivered
           /\ Escalate(p, after.run, after.S, locArrays, monitorSessions)
    /\ UNCHANGED << now, nreq, rideSessions, locArrays, threatArrays, deviationHistories,
                    devArrays, devPoints >>

\* what a handler that does not escalate answers
Answer(kind, threatAssessment, S, M) ==
    /\ sessions' = S
    /\ monitorSessions' = M
    /\ reply' = [status |-> 200, kind |-> kind, threatAssessment |-> threatAssessment,
                 escalation |-> NULL]
    /\ UNCHANGED << silentDispatches, inflight >>

Reject(kind) ==
    /\ reply' = NotFound(kind)
    /\ UNCHANGED << monitorSessions, sessions, locArrays, threatArrays, deviationHistories,
                    devArrays, devPoints, silentDispatches, inflight >>

\* push onto the array at ref, then (over the cap) session.history = history.slice(-cap)
PushCapped(heap, ref, item, cap) ==
    LET pushed == Append(heap[ref], item)
        H1 == [heap EXCEPT ![ref] = pushed]
    IN  IF Len(pushed) > cap
        THEN [heap |-> Append(H1, SliceLast(pushed, cap)), ref |-> Len(H1) + 1]
        ELSE [heap |-> H1, ref |-> ref]

UpdateLocation(env, sessionId, location, locationEnabled, clientSession) ==
    \E p \in FreeSlot(env) :
    LET r == Resolve(sessionId, clientSession) IN
    /\ nreq' = nreq + 1
    /\ UNCHANGED << now, rideSessions, delivered >>
    /\ IF ~r.found THEN Reject("update-location")
       ELSE
       LET obj == r.obj
           session == r.S[obj]
           currentLocation == Loc(location.x, now)
           lh == PushCapped(r.L, session.locationHistory, currentLocation, MaxLocationHistory)
           locationHistory == lh.heap[lh.ref]
           oldDev == deviationHistories[sessionId]
           oldRefs == IF oldDev = 0 THEN << >> ELSE devArrays[oldDev]
           distanceFromConfirmedRoute == distanceFromRoute(currentLocation, session.confirmedRoute)
           deviated == distanceFromConfirmedRoute > 100
           lastDeviation == IF Len(oldRefs) > 0 THEN devPoints[Last(oldRefs)] ELSE NULL
           continues == /\ lastDeviation # NULL
                        /\ now - lastDeviation.timestamp < LOCATION_UPDATE_INTERVAL * 2
           P1 == IF deviated /\ continues
                 THEN [devPoints EXCEPT ![Last(oldRefs)] =
                          [lastDeviation EXCEPT
                              !.duration = now - (lastDeviation.timestamp - lastDeviation.duration),
                              !.distanceFromRoute = distanceFromConfirmedRoute]]
                 ELSE IF deviated
                 THEN Append(devPoints, [location |-> currentLocation,
                                         distanceFromRoute |-> distanceFromConfirmedRoute,
                                         duration |-> 0, timestamp |-> now])
                 ELSE devPoints
           refs1 == IF deviated /\ ~continues THEN Append(oldRefs, Len(P1)) ELSE oldRefs
           \* the push is on the stored array; filter makes a new one
           D1 == IF oldDev # 0 THEN [devArrays EXCEPT ![oldDev] = refs1] ELSE devArrays
           Keep(d) == now - P1[d].timestamp < DeviationRetention
           D2 == Append(D1, SelectSeq(refs1, Keep))
           DH == [deviationHistories EXCEPT ![sessionId] = Len(D2)]
           lastUpdateTime == IF Len(locationHistory) > 1
                             THEN locationHistory[Len(locationHistory) - 1].timestamp
                             ELSE session.startTime
           threatAssessment == assessThreat(currentLocation, session.confirmedRoute,
                                            locationHistory, DevValues(D2, P1, Len(D2)),
                                            mockHighRiskZones, locationEnabled,
                                            lastUpdateTime, now)
           th == PushCapped(r.T, session.threatHistory, threatAssessment, MaxThreatHistory)
           S1 == [r.S EXCEPT ![obj].locationHistory = lh.ref, ![obj].threatHistory = th.ref]
           M1 == [monitorSessions EXCEPT ![sessionId] = obj]
       IN  /\ locArrays' = lh.heap
           /\ threatArrays' = th.heap
           /\ devPoints' = P1
           /\ devArrays' = D2
           /\ deviationHistories' = DH
           /\ IF Qualifies(threatAssessment.action)
              THEN handleEscalation(p, "update-location", obj, threatAssessment,
                                    currentLocation, S1, lh.heap, M1, DH)
              ELSE Answer("update-location", threatAssessment, S1, M1)

\* deviationHistories.get(sessionId) || []
StoredDeviations(sessionId) ==
    IF deviationHistories[sessionId] = 0 THEN << >>
    ELSE DevValues(devArrays, devPoints, deviationHistories[sessionId])

LocationDisabled(env, sessionId, lastKnownLocation, clientSession) ==
    \E p \in FreeSlot(env) :
    LET r == Resolve(sessionId, clientSession) IN
    /\ nreq' = nreq + 1
    /\ UNCHANGED << now, rideSessions, delivered, deviationHistories, devArrays, devPoints >>
    /\ IF ~r.found THEN Reject("location-disabled")
       ELSE
       LET obj == r.obj
           session == r.S[obj]
           \* pushed without a cap
           L1 == IF lastKnownLocation # NULL
                 THEN [r.L EXCEPT ![session.locationHistory] =
                          Append(@, Loc(lastKnownLocation.x, now))]
                 ELSE r.L
           threatAssessment == assessThreat(lastKnownLocation, session.confirmedRoute,
                                            L1[session.locationHistory],
                                            StoredDeviations(sessionId),
                                            mockHighRiskZones, FALSE, now - 60000, now)
           T1 == [r.T EXCEPT ![session.threatHistory] = Append(@, threatAssessment)]
           M1 == [monitorSessions EXCEPT ![sessionId] = obj]
       IN  /\ locArrays' = L1
           /\ threatArrays' = T1
           /\ IF threatAssessment.score >= SOFT_ALERT
              THEN handleEscalation(p, "location-disabled", obj, threatAssessment,
                                    lastKnownLocation, r.S, L1, M1, deviationHistories)
              ELSE Answer("location-disabled", threatAssessment, r.S, M1)

NetworkLoss(env, sessionId, lastKnownLocation, duration, clientSession) ==
    \E p \in FreeSlot(env) :
    LET r == Resolve(sessionId, clientSession) IN
    /\ nreq' = nreq + 1
    /\ UNCHANGED << now, rideSessions, delivered, deviationHistories, devArrays, devPoints >>
    /\ IF ~r.found THEN Reject("network-loss")
       ELSE
       LET obj == r.obj
           session == r.S[obj]
           \* Math.min(duration / 300000, 1)
           networkLossThreat == (Min(duration, 300000) * (ScoreOne \div 1000)) \div 300
           assessed == assessThreat(lastKnownLocation, session.confirmedRoute,
                                    r.L[session.locationHistory],
                                    StoredDeviations(sessionId),
                                    mockHighRiskZones, TRUE, now - duration, now)
           \* the score is raised; level and action stay as assessed
           threatAssessment ==
               [assessed EXCEPT !.score = Min(@ + (networkLossThreat * 2) \div 10, ScoreOne)]
           T1 == [r.T EXCEPT ![session.threatHistory] = Append(@, threatAssessment)]
           M1 == [monitorSessions EXCEPT ![sessionId] = obj]
       IN  /\ locArrays' = r.L
           /\ threatArrays' = T1
           /\ Answer("network-loss", threatAssessment, r.S, M1)

ManualEmergency(env, sessionId, location, clientSession) ==
    \E p \in FreeSlot(env) :
    LET r == Resolve(sessionId, clientSession) IN
    /\ nreq' = nreq + 1
    /\ UNCHANGED << now, rideSessions, delivered, deviationHistories, devArrays, devPoints >>
    /\ IF ~r.found THEN Reject("manual-emergency")
       ELSE
       LET obj == r.obj
           S1 == [r.S EXCEPT ![obj].status = "emergency"]
           M1 == [monitorSessions EXCEPT ![sessionId] = obj]
           manualThreat == [timestamp |-> now, score |-> ScoreOne,
                            factors |-> [routeDeviation |-> 0, suspiciousStops |-> 0,
                                         highRiskZone |-> 0, locationDisabled |-> 0],
                            level |-> "critical", action |-> "emergency_escalation"]
       IN  /\ locArrays' = r.L
           /\ threatArrays' = r.T
           /\ handleEscalation(p, "manual-emergency", obj, manualThreat, location,
                               S1, r.L, M1, deviationHistories)

\* the level and action force-threat-level gives a forced score
ForcedLevel(forcedScore) ==
    IF forcedScore < LOW_LEVEL THEN "safe"
    ELSE IF forcedScore < SOFT_ALERT THEN "low"
    ELSE IF forcedScore < SILENT_DISPATCH THEN "medium"
    ELSE IF forcedScore < EMERGENCY_ESCALATION THEN "high"
    ELSE "critical"

ForcedAction(forcedScore) ==
    IF forcedScore < SOFT_ALERT THEN "none"
    ELSE IF forcedScore < SILENT_DISPATCH THEN "log"
    ELSE IF forcedScore < EMERGENCY_ESCALATION THEN "silent_dispatch"
    ELSE "emergency_escalation"

ForceThreatLevel(env, sessionId, location, forcedScore, clientSession) ==
    \E p \in FreeSlot(env) :
    LET r == Resolve(sessionId, clientSession) IN
    /\ nreq' = nreq + 1
    /\ UNCHANGED << now, rideSessions, delivered, deviationHistories, devArrays, devPoints >>
    /\ IF ~r.found THEN Reject("force-threat-level")
       ELSE
       LET obj == r.obj
           session == r.S[obj]
           forcedThreat == [timestamp |-> now, score |-> forcedScore,
                            factors |-> [routeDeviation |-> (forcedScore * 4) \div 10,
                                         suspiciousStops |-> (forcedScore * 3) \div 10,
                                         highRiskZone |-> (forcedScore * 2) \div 10,
                                         locationDisabled |-> (forcedScore * 1) \div 10],
                            level |-> ForcedLevel(forcedScore),
                            action |-> ForcedAction(forcedScore)]
           T1 == [r.T EXCEPT ![session.threatHistory] = Append(@, forcedThreat)]
           S1 == IF forcedScore >= EMERGENCY_ESCALATION
                 THEN [r.S EXCEPT ![obj].status = "emergency"] ELSE r.S
           M1 == [monitorSessions EXCEPT ![sessionId] = obj]
       IN  /\ locArrays' = r.L
           /\ threatArrays' = T1
           /\ IF Qualifies(forcedThreat.action)
              THEN handleEscalation(p, "force-threat-level", obj, forcedThreat, location,
                                    S1, r.L, M1, deviationHistories)
              ELSE Answer("force-threat-level", forcedThreat, S1, M1)

Tick(dt) ==
    /\ now + dt <= MaxTime
    /\ now' = now + dt
    /\ UNCHANGED << nreq, rideSessions, monitorSessions, sessions, locArrays, threatArrays,
                    deviationHistories, devArrays, devPoints, silentDispatches, inflight,
                    delivered, reply >>

\* ---------------------------------------------------------------- ride route
\* what getRouteAlternatives answers: two road routes, or the straight line
\* getRouteFromOSRM falls back to
ProviderResults ==
    { [routes |-> << RouteWaypoints["route-0"], RouteWaypoints["route-1"] >>],
      [routes |-> << << Loc(200, 0), Loc(1400, 0) >> >>] }

RouteIds == {"route-0", "route-1", "route-2", "route-fallback"}

\* routes.sort((a, b) => b.safetyScore - a.safetyScore): stable, highest first
RECURSIVE InsertBySafety(_, _)
InsertBySafety(sorted, route) ==
    IF sorted = << >> THEN << route >>
    ELSE IF Last(sorted).safetyScore >= route.safetyScore THEN Append(sorted, route)
    ELSE Append(InsertBySafety(SubSeq(sorted, 1, Len(sorted) - 1), route), Last(sorted))

RECURSIVE SortBySafety(_, _)
SortBySafety(routes, n) ==
    IF n = 0 THEN << >> ELSE InsertBySafety(SortBySafety(routes, n - 1), routes[n])

UnusedSessionIds == {s \in SessionIds : rideSessions[s] = NULL}

NewSession(sessionId, routes) ==
    [id |-> sessionId,
     status |-> "setup",
     confirmedRoute |-> routes[1],
     alternativeRoutes |-> routes,
     startTime |-> now,
     locationHistory |-> << Loc(200, now) >>,
     threatHistory |-> << >>,
     emergencyContacts |-> mockEmergencyContacts]

RideFrame ==
    UNCHANGED << now, monitorSessions, sessions, locArrays, threatArrays, deviationHistories,
                 devArrays, devPoints, silentDispatches, inflight, delivered >>

\* POST create: provider is a result of getRouteAlternatives, or NULL when it throws
Create(env, hasEndpoints, provider) ==
    /\ nreq < env.maxReq
    /\ nreq' = nreq + 1
    /\ RideFrame
    /\ IF ~hasEndpoints
       THEN /\ reply' = [status |-> 400, kind |-> "create",
                         error |-> "Source and destination are required"]
            /\ UNCHANGED rideSessions
       ELSE \E sessionId \in UnusedSessionIds :
            LET found == IF provider = NULL THEN << >> ELSE provider.routes
                made == [i \in 1..Len(found) |->
                            LET route == [id |-> IF i = 1 THEN "route-0"
                                                 ELSE IF i = 2 THEN "route-1" ELSE "route-2",
                                          waypoints |-> found[i],
                                          safetyScore |-> 0]
                            IN  [route EXCEPT !.safetyScore =
                                    calculateRouteSafetyScore(route, mockHighRiskZones,
                                                              mockCommunityReports, now)]]
                fallbackRoute == [id |-> "route-fallback",
                                  waypoints |-> << Loc(200, now), Loc(1400, now) >>,
                                  safetyScore |-> ScoreOne \div 2]
                routes == IF provider = NULL THEN << fallbackRoute >>
                          ELSE SortBySafety(made, Len(made))
            IN  /\ rideSessions' = [rideSessions EXCEPT ![sessionId] = NewSession(sessionId, routes)]
                /\ reply' = [status |-> 200, kind |-> "create", sessionId |-> sessionId,
                             routes |-> routes, fallback |-> provider = NULL]

RideNotFound(kind, what) ==
    /\ reply' = [status |-> 404, kind |-> kind, error |-> what]
    /\ UNCHANGED rideSessions

ConfirmRoute(env, sessionId, routeId) ==
    /\ nreq < env.maxReq
    /\ nreq' = nreq + 1
    /\ RideFrame
    /\ LET session == rideSessions[sessionId]
           Selected(r) == r.id = routeId
       IN  IF session = NULL THEN RideNotFound("confirm-route", "Session not found")
           ELSE IF SelectSeq(session.alternativeRoutes, Selected) = << >>
           THEN RideNotFound("confirm-route", "Route not found")
           ELSE LET selectedRoute == SelectSeq(session.alternativeRoutes, Selected)[1]
                IN  /\ rideSessions' = [rideSessions EXCEPT ![sessionId] =
                           [session EXCEPT !.confirmedRoute = selectedRoute,
                                           !.status = "active"]]
                    /\ reply' = [status |-> 200, kind |-> "confirm-route",
                                 session |-> [id |-> session.id, status |-> "active",
                                              confirmedRoute |-> selectedRoute,
                                              startTime |-> session.startTime]]

GetSession(env, sessionId) ==
    /\ nreq < env.maxReq
    /\ nreq' = nreq + 1
    /\ RideFrame
    /\ IF rideSessions[sessionId] = NULL THEN RideNotFound("get-session", "Session not found")
       ELSE /\ reply' = [status |-> 200, kind |-> "get-session",
                         session |-> rideSessions[sessionId]]
            /\ UNCHANGED rideSessions

EndRide(env, sessionId, reason) ==
    /\ nreq < env.maxReq
    /\ nreq' = nreq + 1
    /\ RideFrame
    /\ LET session == rideSessions[sessionId]
           status == IF reason = "emergency" THEN "emergency" ELSE "completed"
       IN  IF session = NULL THEN RideNotFound("end-ride", "Session not found")
           ELSE /\ rideSessions' = [rideSessions EXCEPT ![sessionId] =
                       [session EXCEPT !.status = status]]
                /\ reply' = [status |-> 200, kind |-> "end-ride",
                             session |-> [id |-> session.id, status |-> status]]

\* getRouteFromOSRM: osrm is what the provider answers to the route request,
\* NULL when the request fails or finds no route; the catch answers with the
\* straight line from source to destination
getRouteFromOSRM(source, destination, osrm) ==
    IF osrm = NULL THEN [routes |-> << << source, destination >> >>] ELSE osrm

\* getRouteAlternatives: with fewer than count routes, one request via an offset
\* midpoint per missing route; via[k] is the answer to the k-th of them, NULL
\* when it fails (skipped)
getRouteAlternatives(source, destination, count, osrm, via) ==
    LET routes == getRouteFromOSRM(source, destination, osrm).routes
        Succeeded(v) == v # NULL
        tried == SubSeq(via, 1, Min(Len(via), Max(0, count - Len(routes))))
        found == SelectSeq(tried, Succeeded)
        all == routes \o [k \in 1..Len(found) |-> found[k].waypoints]
    IN  SubSeq(all, 1, Min(count, Len(all)))

\* POST create, down to the provider's answers
CreateRide(env, osrm, via) ==
    Create(env, TRUE,
           [routes |-> getRouteAlternatives(Loc(200, now), Loc(1400, now), 3, osrm, via)])

\* ---------------------------------------------------------- specifications
\* requests one after the other: a handler ends before the next request is taken up
Sequential == [limit |-> 1, maxReq |-> MaxRequests]

MainSessions(s) == Snapshots(s, {"fresh", "stops"})

Next ==
    \/ \E dt \in TickSteps : Tick(dt)
    \/ \E s \in SessionIds, l \in ClientLocations, e \in BOOLEAN :
          \E cs \in MainSessions(s) : UpdateLocation(Sequential, s, l, e, cs)
    \/ \E s \in SessionIds, l \in {NULL, Loc(2800, now)} :
          \E cs \in MainSessions(s) : LocationDisabled(Sequential, s, l, cs)
    \/ \E s \in SessionIds, l \in {NULL, Loc(2800, now)}, d \in {60000} :
          \E cs \in MainSessions(s) : NetworkLoss(Sequential, s, l, d, cs)
    \/ \E s \in SessionIds, l \in {Loc(2800, now)} :
          \E cs \in MainSessions(s) : ManualEmergency(Sequential, s, l, cs)
    \/ \E s \in SessionIds, l \in {Loc(2800, now)}, f \in {150000, 240000, 285000} :
          \E cs \in MainSessions(s) : ForceThreatLevel(Sequential, s, l, f, cs)
    \/ \E p \in ProcIds, ok \in BOOLEAN : EmailResult(p, ok)

Spec == Init /\ [][Next]_vars

\* the ride route and the monitor route side by side
RideEnv == [limit |-> 1, maxReq |-> MaxRideRequests]

RideSessions(s) == Snapshots(s, {"fresh", "switched"})

NextRide ==
    \/ \E h \in BOOLEAN, provider \in ProviderResults \cup {NULL} : Create(RideEnv, h, provider)
    \/ \E s \in SessionIds, r \in RouteIds : ConfirmRoute(RideEnv, s, r)
    \/ \E s \in SessionIds : GetSession(RideEnv, s)
    \/ \E s \in SessionIds, reason \in {"completed", "emergency"} : EndRide(RideEnv, s, reason)
    \/ \E s \in SessionIds, l \in {Loc(600, now)} :
          \E cs \in RideSessions(s) : UpdateLocation(RideEnv, s, l, TRUE, cs)
    \/ \E s \in SessionIds, l \in {Loc(2800, now)} :
          \E cs \in RideSessions(s) : LocationDisabled(RideEnv, s, l, cs)
    \/ \E s \in SessionIds, l \in {Loc(2800, now)}, d \in {60000} :
          \E cs \in RideSessions(s) : NetworkLoss(RideEnv, s, l, d, cs)
    \/ \E s \in SessionIds, l \in {Loc(2800, now)}, f \in {30000, 285000} :
          \E cs \in RideSessions(s) : ForceThreatLevel(RideEnv, s, l, f, cs)
    \/ \E p \in ProcIds, ok \in BOOLEAN : EmailResult(p, ok)

SpecRide == Init /\ [][NextRide]_vars

\* every action of both routes, with and without a session in the body
UnknownEnv == [limit |-> 1, maxReq |-> MaxUnknownRequests]

NextUnknown ==
    \/ \E provider \in ProviderResults : Create(UnknownEnv, TRUE, provider)
    \/ \E s \in SessionIds, r \in {"route-0"} : ConfirmRoute(UnknownEnv, s, r)
    \/ \E s \in SessionIds : GetSession(UnknownEnv, s)
    \/ \E s \in SessionIds, reason \in {"completed", "emergency"} : EndRide(UnknownEnv, s, reason)
    \/ \E s \in SessionIds, l \in {Loc(2800, now)} :
          \E cs \in Snapshots(s, {"fresh"}) : UpdateLocation(UnknownEnv, s, l, TRUE, cs)
    \/ \E s \in SessionIds, l \in {NULL, Loc(2800, now)} :
          \E cs \in Snapshots(s, {"fresh"}) : LocationDisabled(UnknownEnv, s, l, cs)
    \/ \E s \in SessionIds, l \in {Loc(2800, now)}, d \in {60000} :
          \E cs \in Snapshots(s, {"fresh"}) : NetworkLoss(UnknownEnv, s, l, d, cs)
    \/ \E s \in SessionIds, l \in {Loc(2800, now)} :
          \E cs \in Snapshots(s, {"fresh"}) : ManualEmergency(UnknownEnv, s, l, cs)
    \/ \E s \in SessionIds, l \in {Loc(2800, now)}, f \in {30000, 285000} :
          \E cs \in Snapshots(s, {"fresh"}) : ForceThreatLevel(UnknownEnv, s, l, f, cs)
    \/ \E p \in ProcIds, ok \in BOOLEAN : EmailResult(p, ok)

SpecUnknown == Init /\ [][NextUnknown]_vars

\* ride creation with a provider that answers, answers in part, or fails
CreateEnv == [limit |-> 1, maxReq |-> MaxCreateRequests]

OsrmAnswers ==
    {NULL, [routes |-> << RouteWaypoints["route-0"] >>],
     [routes |-> << RouteWaypoints["route-0"], RouteWaypoints["route-1"] >>]}

ViaAnswers == [1..2 -> {NULL, [waypoints |-> RouteWaypoints["route-1"]]}]

NextCreate ==
    \/ \E dt \in TickSteps : Tick(dt)
    \/ \E osrm \in OsrmAnswers, via \in ViaAnswers : CreateRide(CreateEnv, osrm, via)
    \/ \E s \in SessionIds, r \in RouteIds : ConfirmRoute(CreateEnv, s, r)
    \/ \E s \in SessionIds : GetSession(CreateEnv, s)
    \/ \E s \in SessionIds, reason \in {"completed", "emergency"} : EndRide(CreateEnv, s, reason)

SpecCreate == Init /\ [][NextCreate]_vars

\* requests that overlap: a second request is taken up while the handler of
\* the first is suspended at its await
Concurrent == [limit |-> 2, maxReq |-> MaxConcRequests]

ConcSessions(s) == Snapshots(s, {"fresh"})

NextConc ==
    \/ \E s \in SessionIds, l \in {Loc(2800, now)} :
          \E cs \in ConcSessions(s) : ManualEmergency(Concurrent, s, l, cs)
    \/ \E s \in SessionIds, l \in {Loc(2800, now)}, f \in {240000} :
          \E cs \in ConcSessions(s) : ForceThreatLevel(Concurrent, s, l, f, cs)
    \/ \E p \in ProcIds, ok \in BOOLEAN : EmailResult(p, ok)

SpecConc == Init /\ [][NextConc]_vars

\* escalations one after the other, with sends that succeed or fail
NotifyEnv == [limit |-> 1, maxReq |-> MaxNotifyRequests]

NotifySessions(s) == Snapshots(s, {"fresh", "noemail"})

NextNotify ==
    \/ \E dt \in TickSteps : Tick(dt)
    \/ \E s \in SessionIds, l \in {Loc(2800, now)} :
          \E cs \in NotifySessions(s) : ManualEmergency(NotifyEnv, s, l, cs)
    \/ \E s \in SessionIds, l \in {Loc(2800, now)}, f \in {240000} :
          \E cs \in NotifySessions(s) : ForceThreatLevel(NotifyEnv, s, l, f, cs)
    \/ \E p \in ProcIds, ok \in BOOLEAN : EmailResult(p, ok)

SpecNotify == Init /\ [][NextNotify]_vars

\* sessions whose histories are at their caps
CapsEnv == [limit |-> 1, maxReq |-> MaxCapsRequests]

CapsSessions(s) == Snapshots(s, {"fresh", "full"})

NextCaps ==
    \/ \E s \in SessionIds, l \in ClientLocations, e \in BOOLEAN :
          \E cs \in CapsSessions(s) : UpdateLocation(CapsEnv, s, l, e, cs)
    \/ \E s \in SessionIds, l \in {NULL, Loc(600, now)} :
          \E cs \in CapsSessions(s) : LocationDisabled(CapsEnv, s, l, cs)
    \/ \E s \in SessionIds, l \in {Loc(600, now)}, d \in {60000, 600000} :
          \E cs \in CapsSessions(s) : NetworkLoss(CapsEnv, s, l, d, cs)
    \/ \E s \in SessionIds, l \in {Loc(600, now)}, f \in {30000, 150000} :
          \E cs \in CapsSessions(s) : ForceThreatLevel(CapsEnv, s, l, f, cs)

SpecCaps == Init /\ [][NextCaps]_vars

\* forced scores over the whole range, the thresholds among them
ForceEnv == [limit |-> 1, maxReq |-> MaxForceRequests]

ForcedScores ==
    {0, 30000, LOW_LEVEL, 90000, SOFT_ALERT, 150000, SILENT_DISPATCH, 240000,
     EMERGENCY_ESCALATION, 285000, ScoreOne}

NextForce ==
    \/ \E s \in SessionIds, l \in {Loc(600, now)}, f \in ForcedScores :
          \E cs \in Snapshots(s, {"fresh"}) : ForceThreatLevel(ForceEnv, s, l, f, cs)
    \/ \E p \in ProcIds, ok \in BOOLEAN : EmailResult(p, ok)

SpecForce == Init /\ [][NextForce]_vars

\* the panic trigger, with and without a location, on sessions with and
\* without a location history
PanicEnv == [limit |-> 1, maxReq |-> MaxPanicRequests]

NextPanic ==
    \/ \E s \in SessionIds, l \in {NULL, Loc(2800, now)} :
          \E cs \in Snapshots(s, {"fresh", "noemail", "nohistory"}) :
             ManualEmergency(PanicEnv, s, l, cs)
    \/ \E p \in ProcIds, ok \in BOOLEAN : EmailResult(p, ok)

SpecPanic == Init /\ [][NextPanic]_vars

\* every entry point that escalates, with assessments of every action
DispatchEnv == [limit |-> 1, maxReq |-> MaxDispatchRequests]

NextDispatch ==
    \/ \E s \in SessionIds, l \in {Loc(2800, now)} :
          \E cs \in Snapshots(s, {"stops"}) : UpdateLocation(DispatchEnv, s, l, FALSE, cs)
    \/ \E s \in SessionIds, l \in {Loc(2800, now)} :
          \E cs \in Snapshots(s, {"fresh"}) : LocationDisabled(DispatchEnv, s, l, cs)
    \/ \E s \in SessionIds, l \in {Loc(2800, now)} :
          \E cs \in Snapshots(s, {"fresh"}) : ManualEmergency(DispatchEnv, s, l, cs)
    \/ \E s \in SessionIds, l \in {Loc(2800, now)}, f \in {150000, 240000, 285000} :
          \E cs \in Snapshots(s, {"fresh"}) : ForceThreatLevel(DispatchEnv, s, l, f, cs)
    \/ \E p \in ProcIds, ok \in BOOLEAN : EmailResult(p, ok)

SpecDispatch == Init /\ [][NextDispatch]_vars

\* location updates every 10 s, on the route and 200 m off it
DeviationEnv == [limit |-> 1, maxReq |-> MaxDeviationRequests]

TickUntil(dt, limit) ==
    /\ now + dt <= limit
    /\ now' = now + dt
    /\ UNCHANGED << nreq, rideSessions, monitorSessions, sessions, locArrays, threatArrays,
                    deviationHistories, devArrays, devPoints, silentDispatches, inflight,
                    delivered, reply >>

NextDeviation ==
    \/ \E dt \in TickSteps : TickUntil(dt, MaxDeviationTime)
    \/ \E s \in SessionIds, l \in {Loc(800, now), Loc(1600, now)} :
          \E cs \in Snapshots(s, {"fresh"}) : UpdateLocation(DeviationEnv, s, l, TRUE, cs)

SpecDeviation == Init /\ [][NextDeviation]_vars

\* location updates that arrive 5 s apart or more, 200 m off the route
DurationEnv == [limit |-> 1, maxReq |-> MaxDurationRequests]

NextDuration ==
    \/ \E dt \in {5000} : TickUntil(dt, MaxDurationTime)
    \/ \E s \in SessionIds, l \in {Loc(800, now), Loc(1600, now)} :
          \E cs \in Snapshots(s, {"fresh"}) : UpdateLocation(DurationEnv, s, l, TRUE, cs)

SpecDuration == Init /\ [][NextDuration]_vars

\* ------------------------------------------- the safety engine, called directly
\* a caller of the engine holds a call (the function and its arguments) and
\* then its result; reply is what the caller holds
EngineRoute == ClientRoute("route-0")

\* on the route, at the edge of the corridor (100 m), just outside it, 500 m,
\* 1 km and 2 km off the route, and no location
EngineLocations ==
    {NULL, Loc(800, 0), Loc(1500, 0), Loc(1501, 0), Loc(1900, 0), Loc(2400, 0), Loc(3400, 0)}

ZoneAround(x, riskLevel) ==
    [id |-> "zone", center |-> Loc(x, 0), radius |-> 5000, riskLevel |-> riskLevel]

EngineZones ==
    {<< >>, mockHighRiskZones}
        \cup {<< ZoneAround(800, r) >> : r \in {135000, 285000, ScoreOne}}

\* no history, and histories with one, two and three stops of 61 s
EngineHistories ==
    {<< >>, SubSeq(StopsHistory, 1, 2), SubSeq(StopsHistory, 1, 4), StopsHistory}

DeviationOf(duration) ==
    [location |-> Loc(2400, -1000), distanceFromRoute |-> 1000,
     duration |-> duration, timestamp |-> -1000]

EngineDeviations ==
    {<< >>, << DeviationOf(150000) >>, << DeviationOf(300000) >>,
     << DeviationOf(200000), DeviationOf(200000) >>}

AssessCalls ==
    {[kind |-> "call", fn |-> "assessThreat",
      args |-> [currentLocation |-> l, locationHistory |-> h, deviationHistory |-> d,
                highRiskZones |-> z, locationEnabled |-> e, lastUpdateTime |-> t]] :
        l \in EngineLocations, h \in EngineHistories, d \in EngineDeviations,
        z \in EngineZones, e \in BOOLEAN, t \in {0, -30000, -45000, -60000, -70000}}

Returned(call, result) ==
    [kind |-> "return", fn |-> call.fn, args |-> call.args, result |-> result]

EngineFrame ==
    UNCHANGED << now, nreq, rideSessions, monitorSessions, sessions, locArrays, threatArrays,
                 deviationHistories, devArrays, devPoints, silentDispatches, inflight,
                 delivered >>

CallAssessThreat ==
    /\ reply.kind = "call"
    /\ reply.fn = "assessThreat"
    /\ reply' = Returned(reply,
                         assessThreat(reply.args.currentLocation, EngineRoute,
                                      reply.args.locationHistory, reply.args.deviationHistory,
                                      reply.args.highRiskZones, reply.args.locationEnabled,
                                      reply.args.lastUpdateTime, now))
    /\ EngineFrame

\* calculateRouteDeviationScore at two locations, with one deviation history
DeviationDistances == {100, 101, 500, 999, 1000, 1001, 1500, 2000}

DeviationCalls ==
    {[kind |-> "call", fn |-> "calculateRouteDeviationScore",
      args |-> [location1 |-> Loc(1400 + d1, 0), location2 |-> Loc(1400 + d2, 0),
                deviationHistory |-> d]] :
        d1 \in DeviationDistances, d2 \in DeviationDistances, d \in EngineDeviations}

CallRouteDeviation ==
    /\ reply.kind = "call"
    /\ reply.fn = "calculateRouteDeviationScore"
    /\ reply' = Returned(reply,
                         << calculateRouteDeviationScore(reply.args.location1, EngineRoute,
                                                         reply.args.deviationHistory, now),
                            calculateRouteDeviationScore(reply.args.location2, EngineRoute,
                                                         reply.args.deviationHistory, now) >>)
    /\ EngineFrame

\* calculateSuspiciousStopsScore on the histories made of at most MaxStopSteps
\* steps: standing 30 s, standing 65 s, 30 m in 30 s (1 m/s), 100 m in 1 s;
\* and on a history of five 65 s stops
MaxStopSteps == 6

StopSteps ==
    {[dx |-> 0, dt |-> 30000], [dx |-> 0, dt |-> 65000],
     [dx |-> 30, dt |-> 30000], [dx |-> 100, dt |-> 1000]}

RECURSIVE Travelled(_, _)
Travelled(steps, n) ==
    IF n = 0 THEN [dx |-> 0, dt |-> 0]
    ELSE LET before == Travelled(steps, n - 1)
         IN  [dx |-> before.dx + steps[n].dx, dt |-> before.dt + steps[n].dt]

HistoryOf(steps) ==
    [i \in 1..(Len(steps) + 1) |->
        Loc(Travelled(steps, i - 1).dx, Travelled(steps, i - 1).dt)]

FiveStops ==
    HistoryOf([i \in 1..9 |-> IF i % 2 = 1 THEN [dx |-> 0, dt |-> 65000]
                                          ELSE [dx |-> 100, dt |-> 1000]])

StopHistories ==
    {<< >>, FiveStops} \cup
    UNION {{HistoryOf(steps) : steps \in [1..n -> StopSteps]} : n \in 0..MaxStopSteps}

StopCalls ==
    {[kind |-> "call", fn |-> "calculateSuspiciousStopsScore",
      args |-> [locationHistory |-> h]] : h \in StopHistories}

CallSuspiciousStops ==
    /\ reply.kind = "call"
    /\ reply.fn = "calculateSuspiciousStopsScore"
    /\ reply' = Returned(reply, calculateSuspiciousStopsScore(reply.args.locationHistory))
    /\ EngineFrame

\* validateCommunityReport on a report at x = 4400 and existing reports made
\* of blocks: by the same reporter or by others, in the same area or far away,
\* recent or just too old
MaxSameReporter == 6
MaxAreaReports == 11

ReportOf(reporterId, trust, x, age) ==
    [id |-> "cr", reporterId |-> reporterId, reporterTrustScore |-> trust,
     location |-> Loc(x, -age), type |-> "unsafe_area", timestamp |-> -age,
     isVerified |-> TRUE]

Block(n, report) == [i \in 1..n |-> report]

SameReporterCounts == {0, MaxSameReporter - 1, MaxSameReporter}
AreaCounts == {0, MaxAreaReports - 1, MaxAreaReports}

ExistingReports ==
    {Block(a, ReportOf("user-123", 255000, 9400, 7200000))
       \o Block(b, ReportOf("user-123", 255000, 9400, 86400000))
       \o Block(c, ReportOf("user-456", 276000, 4899, 1800000))
       \o Block(d, ReportOf("user-456", 276000, 4900, 1800000))
       \o Block(e, ReportOf("user-456", 276000, 4400, 3600000))
       \o Block(f, ReportOf("user-123", 255000, 4400, 1800000)) :
        a \in SameReporterCounts, b \in {0, MaxSameReporter},
        c \in AreaCounts, d \in {0, MaxAreaReports}, e \in {0, MaxAreaReports},
        f \in {0, MaxSameReporter}}

ValidateCalls ==
    {[kind |-> "call", fn |-> "validateCommunityReport",
      args |-> [report |-> ReportOf("user-123", trust, 4400, 3600000),
                existingReports |-> existing]] :
        trust \in {60000, MIN_TRUST_SCORE, 255000}, existing \in ExistingReports}

\* reports of every trust score, 15 days old, new, and dated 15 days after the
\* evaluation, with and without three verified reports of the same type nearby
WeightCalls ==
    {[kind |-> "call", fn |-> "validateCommunityReport",
      args |-> [report |-> ReportOf("user-123", trust, 4400, age),
                existingReports |-> existing]] :
        trust \in {0, MIN_TRUST_SCORE, 150000, ScoreOne},
        age \in {-1296000000, 0, 1296000000},
        existing \in {<< >>, Block(MIN_CONSENSUS, ReportOf("user-456", 276000, 4400, 7200000))}}

CallValidateReport ==
    /\ reply.kind = "call"
    /\ reply.fn = "validateCommunityReport"
    /\ reply' = Returned(reply, validateCommunityReport(reply.args.report,
                                                        reply.args.existingReports, now))
    /\ EngineFrame

\* calculateRouteSafetyScore on three routes, with up to MaxRouteReports unsafe
\* and as many safe reports at one place, of one trust score and one age
MaxRouteReports == 3

SafetyRoutes ==
    {ClientRoute("route-0"), ClientRoute("route-1"),
     [id |-> "route-2", waypoints |-> << Loc(200, 0), Loc(400, 0), Loc(600, 0) >>,
      safetyScore |-> ScoreOne \div 2]}

SafetyZones == {<< >>, mockHighRiskZones, << ZoneAround(800, 135000) >>, << ZoneAround(800, ScoreOne) >>}

ReportsAt(x, trust, age, unsafe, safe) ==
    [i \in 1..(unsafe + safe) |->
        [id |-> "cr", reporterId |-> IF i <= unsafe THEN "user-123" ELSE "user-456",
         reporterTrustScore |-> trust, location |-> Loc(x, -age),
         type |-> IF i <= unsafe THEN "unsafe_area" ELSE "safe_area",
         timestamp |-> -age, isVerified |-> TRUE]]

SafetyReports ==
    {ReportsAt(x, trust, age, unsafe, safe) :
        x \in {400, 800, 9400}, trust \in {60000, 255000, ScoreOne},
        age \in {0, 7200000, 1296000000},
        unsafe \in 0..MaxRouteReports, safe \in 0..MaxRouteReports}

SafetyCalls ==
    {[kind |-> "call", fn |-> "calculateRouteSafetyScore",
      args |-> [route |-> route, highRiskZones |-> zones, communityReports |-> reports]] :
        route \in SafetyRoutes, zones \in SafetyZones, reports \in SafetyReports}

CallRouteSafetyScore ==
    /\ reply.kind = "call"
    /\ reply.fn = "calculateRouteSafetyScore"
    /\ reply' = Returned(reply, calculateRouteSafetyScore(reply.args.route,
                                                          reply.args.highRiskZones,
                                                          reply.args.communityReports, now))
    /\ EngineFrame

\* calculateHighRiskZoneScore with up to MaxZones zones, and with one zone more
MaxZones == 2

ZonePool ==
    {[id |-> "hrz-4", center |-> Loc(1100, 0), radius |-> 350, riskLevel |-> 180000],
     [id |-> "hrz-7", center |-> Loc(1300, 0), radius |-> 300, riskLevel |-> 210000],
     [id |-> "hrz-9", center |-> Loc(1500, 0), radius |-> 200, riskLevel |-> 270000]}

ZoneLists == UNION {[1..n -> ZonePool] : n \in 0..MaxZones}

ZoneCalls ==
    {[kind |-> "call", fn |-> "calculateHighRiskZoneScore",
      args |-> [currentLocation |-> Loc(x, 0), highRiskZones |-> zones, added |-> zone]] :
        x \in {800, 1100, 1300, 1450, 1600, 1800, 1801, 1900, 2500},
        zones \in ZoneLists, zone \in ZonePool}

CallHighRiskZoneScore ==
    /\ reply.kind = "call"
    /\ reply.fn = "calculateHighRiskZoneScore"
    /\ reply' = Returned(reply,
                         << calculateHighRiskZoneScore(reply.args.currentLocation,
                                                       reply.args.highRiskZones),
                            calculateHighRiskZoneScore(reply.args.currentLocation,
                                                       Append(reply.args.highRiskZones,
                                                              reply.args.added)) >>)
    /\ EngineFrame

EngineCalls == AssessCalls \cup DeviationCalls \cup StopCalls \cup ValidateCalls \cup WeightCalls
       \cup SafetyCalls \cup ZoneCalls

InitEngine ==
    /\ now = 0
    /\ nreq = 0
    /\ rideSessions = [s \in SessionIds |-> NULL]
    /\ monitorSessions = [s \in SessionIds |-> 0]
    /\ sessions = << >>
    /\ locArrays = << >>
    /\ threatArrays = << >>
    /\ deviationHistories = [s \in SessionIds |-> 0]
    /\ devArrays = << >>
    /\ devPoints = << >>
    /\ silentDispatches = << >>
    /\ inflight = [p \in ProcIds |-> Idle]
    /\ delivered = [s \in SessionIds |-> [c \in ContactIds |-> 0]]
    /\ reply \in EngineCalls

NextEngine ==
    \/ CallAssessThreat
    \/ CallRouteDeviation
    \/ CallSuspiciousStops
    \/ CallValidateReport
    \/ CallRouteSafetyScore
    \/ CallHighRiskZoneScore

SpecEngine == InitEngine /\ [][NextEngine]_vars

\* the location-disabled event on sessions with and without stops and history,
\* with and without a last known location, next to direct calls of
\* calculateLocationDisabledScore
DisabledEnv == [limit |-> 1, maxReq |-> MaxDisabledRequests]

Staleness == {-1, 0, 29999, 30000, 30001, 59999, 60000, 60001, 600000}

DisabledScoreCall(locationEnabled, timeSinceLastUpdate) ==
    [kind |-> "call", fn |-> "calculateLocationDisabledScore",
     args |-> [locationEnabled |-> locationEnabled,
               timeSinceLastUpdate |-> timeSinceLastUpdate]]

CallLocationDisabledScore ==
    \E e \in BOOLEAN, t \in Staleness :
       /\ reply' = Returned(DisabledScoreCall(e, t), calculateLocationDisabledScore(e, t))
       /\ EngineFrame

NextDisabled ==
    \/ \E s \in SessionIds, l \in {NULL, Loc(600, now), Loc(2800, now)} :
          \E cs \in Snapshots(s, {"fresh", "stops", "nohistory"}) :
             LocationDisabled(DisabledEnv, s, l, cs)
    \/ \E p \in ProcIds, ok \in BOOLEAN : EmailResult(p, ok)
    \/ CallLocationDisabledScore

SpecDisabled == Init /\ [][NextDisabled]_vars

\* -------------------------------------------------------------- properties
StoredSession(s) == sessions[monitorSessions[s]]

StoredNotified(s, c) ==
    /\ monitorSessions[s] # 0
    /\ \E i \in 1..Len(StoredSession(s).emergencyContacts) :
          /\ StoredSession(s).emergencyContacts[i].id = c
          /\ StoredSession(s).emergencyContacts[i].notified

MonitorStatus(s) == IF monitorSessions[s] = 0 THEN "none" ELSE StoredSession(s).status

RideStatus(s) == IF rideSessions[s] = NULL THEN "none" ELSE rideSessions[s].status

HasAssessment(r) == "threatAssessment" \in DOMAIN r

\* C1: over requests handled one after the other, every contact of a session
\* is delivered at most one alert email
C1_NotifyOnce ==
    \A s \in SessionIds, c \in ContactIds : delivered[s][c] <= 1

\* C3: a contact of the stored session that is notified stays notified
C3_NotifiedNeverReverts ==
    [][\A s \in SessionIds, c \in ContactIds :
          StoredNotified(s, c) => StoredNotified(s, c)']_vars

\* the assessments a step acts on: the one of the response it gives and the
\* ones of the handlers it leaves suspended
StepQualifies ==
    \/ HasAssessment(reply') /\ Qualifies(reply'.threatAssessment.action)
    \/ \E p \in ProcIds : inflight'[p].pc = "await" /\ Qualifies(inflight'[p].threat.action)

\* C5: the stored session becomes 'emergency', or a dispatch is stored, only in
\* a step whose assessment has action silent_dispatch or emergency_escalation
C5_EscalationOnlyWhenQualifying ==
    [][(\/ Len(silentDispatches') > Len(silentDispatches)
        \/ \E s \in SessionIds : MonitorStatus(s) # "emergency" /\ MonitorStatus(s)' = "emergency")
       => StepQualifies]_vars

QualifyingUpdate(r) ==
    /\ HasAssessment(r)
    /\ r.kind = "update-location"
    /\ Qualifies(r.threatAssessment.action)

\* C6: a location update with a qualifying assessment that directly follows a
\* location update with a qualifying assessment stores no further dispatch
C6_OneDispatchPerCrossing ==
    [][~(/\ QualifyingUpdate(reply)
         /\ QualifyingUpdate(reply')
         /\ Len(silentDispatches') > Len(silentDispatches))]_vars

\* what the evidence packet of the k-th dispatch holds
PacketView(k) ==
    LET packet == silentDispatches[k].evidencePacket
    IN  [gpsHistory |-> locArrays[packet.gpsHistory],
         deviationPoints |-> IF packet.deviationPoints = 0 THEN << >>
                             ELSE DevValues(devArrays, devPoints, packet.deviationPoints),
         threatAssessments |-> threatArrays[packet.threatAssessments]]

\* C9: what the evidence packet of a stored dispatch holds never changes
C9_PacketFrozen ==
    [][\A k \in 1..Len(silentDispatches) : PacketView(k)' = PacketView(k)]_vars

\* the contacts a handler in flight has sent an alert email to
SentBy(run) ==
    {run.actions[k].contact :
        k \in {n \in 1..Len(run.actions) : run.actions[n].tag = "EMAIL_SENT"}}

\* C2: two handlers of one session that overlap never both send an alert email
\* to the same contact
C2_SerializedSends ==
    \A p, q \in ProcIds :
        (/\ p # q
         /\ inflight[p].pc = "await"
         /\ inflight[q].pc = "await"
         /\ sessions[inflight[p].session].id = sessions[inflight[q].session].id)
        => SentBy(inflight[p]) \cap SentBy(inflight[q]) = {}

\* C4: a session whose status is 'emergency', in the ride route's store or in
\* the monitor route's, has status 'emergency' in the next state
C4_EmergencyAbsorbing ==
    [][\A s \in SessionIds :
          /\ RideStatus(s) = "emergency" => RideStatus(s)' = "emergency"
          /\ MonitorStatus(s) = "emergency" => MonitorStatus(s)' = "emergency"]_vars

SameRoute(a, b) == a.id = b.id /\ a.waypoints = b.waypoints

\* C7: the confirmedRoute of an active session, in the ride route's store or in
\* the monitor route's, is the same route in the next state
C7_ConfirmedRouteFrozen ==
    [][\A s \in SessionIds :
          /\ RideStatus(s) = "active"
                => SameRoute(rideSessions[s].confirmedRoute, rideSessions'[s].confirmedRoute)
          /\ MonitorStatus(s) = "active"
                => SameRoute(StoredSession(s).confirmedRoute, StoredSession(s)'.confirmedRoute)]_vars

Logged(actions, tag, c) ==
    \E k \in 1..Len(actions) : actions[k] = [tag |-> tag, contact |-> c]

InSeq(x, seq) == \E k \in 1..Len(seq) : seq[k] = x

\* the handler in slot p, suspended on a send, ends in this step with a response
Completes(p) ==
    /\ inflight[p].pc = "await"
    /\ inflight'[p].pc = "idle"
    /\ reply'.status = 200

\* what holds of the run of handleEscalation that ends in slot p
NonFatal(p) ==
    LET run == inflight[p]
        actions == reply'.escalation.actions
        packet == reply'.escalation.evidencePacket
        contacts == sessions'[run.session].emergencyContacts
        dispatch == silentDispatches'[Len(silentDispatches')]
    IN  /\ \A i \in 1..Len(run.before) :
              LET c == run.before[i]
                  sent == Logged(actions, "EMAIL_SENT", c.id)
                  failed == Logged(actions, "EMAIL_FAILED", c.id)
              IN  IF ~c.notified /\ c.email
                  THEN /\ sent # failed
                       /\ sent => contacts[i].notified
                                  /\ InSeq(c.id, packet.emergencyContactsNotified)
                       /\ failed => ~contacts[i].notified
                                    /\ ~InSeq(c.id, packet.emergencyContactsNotified)
                                    /\ ~InSeq(c.id, dispatch.evidencePacket.emergencyContactsNotified)
                  ELSE ~sent /\ ~failed
        /\ Len(silentDispatches') = Len(silentDispatches) + 1
        /\ dispatch.id = run.dispatchId
        /\ dispatch.threatScore = run.threat.score
        /\ reply'.threatAssessment = run.threat

\* C8: when a run of handleEscalation ends, every contact it found un-notified
\* with an email was sent to, whatever sends failed before; the ones whose send
\* succeeded are notified and in the packet's list, the ones whose send failed
\* are still un-notified, absent from the list and logged EMAIL_FAILED; the
\* dispatch is stored with the score of the assessment
C8_FailedSendNonFatal ==
    [][\A p \in ProcIds : Completes(p) => NonFatal(p)]_vars

\* a response whose run saw a send fail and then a send to a later contact succeed
C8_FailedThenSent ==
    /\ reply # NULL
    /\ reply.status = 200
    /\ reply.escalation # NULL
    /\ \E i, j \in 1..Len(reply.escalation.actions) :
          /\ i < j
          /\ reply.escalation.actions[i].tag = "EMAIL_FAILED"
          /\ reply.escalation.actions[j].tag = "EMAIL_SENT"
          /\ Len(silentDispatches) > 0
          /\ silentDispatches[Len(silentDispatches)].id = reply.escalation.dispatchId

\* C10: the stored session holds at most 100 locations and 50 assessments
C10_HistoriesBounded ==
    \A s \in SessionIds :
        monitorSessions[s] # 0 =>
            /\ Len(locArrays[StoredSession(s).locationHistory]) <= MaxLocationHistory
            /\ Len(threatArrays[StoredSession(s).threatHistory]) <= MaxThreatHistory

ReturnOf(fn) == reply.kind = "return" /\ reply.fn = fn

Tenths(n) == (n * ScoreOne) \div 10

\* C11: assessThreat gives a score of 0.9 or more critical/emergency_escalation,
\* a score from 0.7 up to 0.9 high/silent_dispatch, a score from 0.4 up to 0.7
\* medium/log, a score above 0.2 and below 0.4 low/none, and a score of 0.2 or
\* less safe/none
C11_ThresholdTable ==
    ReturnOf("assessThreat") =>
        LET r == reply.result
            s == r.score
            Is(level, action) == r.level = level /\ r.action = action
        IN  /\ s >= Tenths(9) => Is("critical", "emergency_escalation")
            /\ s >= Tenths(7) /\ s < Tenths(9) => Is("high", "silent_dispatch")
            /\ s >= Tenths(4) /\ s < Tenths(7) => Is("medium", "log")
            /\ s > Tenths(2) /\ s < Tenths(4) => Is("low", "none")
            /\ s <= Tenths(2) => Is("safe", "none")

\* an assessment whose score is exactly 0.2, which is safe
C11_ExactlyLowBoundary ==
    /\ ReturnOf("assessThreat")
    /\ reply.result.score = Tenths(2)
    /\ reply.result.level = "safe"

\* C12: the level and action force-threat-level answers for a forced score are
\* the ones assessThreat gives a computed score of that value
C12_ForcedMatchesAssessed ==
    (/\ HasAssessment(reply)
     /\ reply.kind = "force-threat-level")
    => /\ reply.threatAssessment.level = LevelOf(reply.threatAssessment.score)
       /\ reply.threatAssessment.action = ActionOf(reply.threatAssessment.score)

FactorsOf(r) ==
    << r.factors.routeDeviation, r.factors.suspiciousStops,
       r.factors.highRiskZone, r.factors.locationDisabled >>

\* C13: the score assessThreat returns is the weighted sum of its four factors
\* (weights 0.4, 0.3, 0.2, 0.1), lies in [0,1], is 0 only when every factor is 0
\* and 1 only when every factor is 1
C13_ScoreInRange ==
    ReturnOf("assessThreat") =>
        LET r == reply.result
            f == FactorsOf(r)
            sum == 4 * f[1] + 3 * f[2] + 2 * f[3] + f[4]
        IN  /\ \A i \in 1..4 : f[i] >= 0 /\ f[i] <= ScoreOne
            /\ 10 * r.score <= sum /\ sum < 10 * r.score + 10
            /\ r.score >= 0 /\ r.score <= ScoreOne
            /\ r.score = 0 => \A i \in 1..4 : f[i] = 0
            /\ r.score = ScoreOne => \A i \in 1..4 : f[i] = ScoreOne

\* an assessment all of whose factors are 1
C13_AllFactorsOne ==
    /\ ReturnOf("assessThreat")
    /\ \A i \in 1..4 : FactorsOf(reply.result)[i] = ScoreOne
    /\ reply.result.score <= ScoreOne

\* a request of the kind for an existing session is answered in this step
Answered(kind) ==
    /\ reply' # reply
    /\ reply'.kind = kind
    /\ reply'.status # 404

\* C14: the answer to manual-emergency for an existing session carries an
\* assessment with score 1.0, level critical and action emergency_escalation;
\* the stored session is then in status 'emergency' and the dispatch of the
\* answer is stored with threatScore 1.0 and emergencyServicesNotified = true
C14_ManualEmergencyEscalates ==
    [][Answered("manual-emergency") =>
          /\ HasAssessment(reply')
          /\ reply'.threatAssessment.score = ScoreOne
          /\ reply'.threatAssessment.level = "critical"
          /\ reply'.threatAssessment.action = "emergency_escalation"
          /\ \A s \in SessionIds : MonitorStatus(s)' = "emergency"
          /\ \E k \in 1..Len(silentDispatches') :
                /\ silentDispatches'[k].id = reply'.escalation.dispatchId
                /\ silentDispatches'[k].threatScore = ScoreOne
                /\ silentDispatches'[k].emergencyServicesNotified]_vars

Has112(actions) ==
    \E k \in 1..Len(actions) : actions[k].tag = "EMERGENCY_SERVICES_112_NOTIFIED"

\* C15: the dispatch a step stores has emergencyServicesNotified = true exactly
\* when the assessment of the step has action emergency_escalation, which is
\* when its score is 0.9 or more, and the answer lists
\* EMERGENCY_SERVICES_112_NOTIFIED exactly then; the answer to a forced score
\* of 0.95 is critical / emergency_escalation and leaves the session in
\* status 'emergency'
C15_EmergencyServicesFlag ==
    [][/\ Len(silentDispatches') > Len(silentDispatches) =>
             LET dispatch == silentDispatches'[Len(silentDispatches')]
                 threat == reply'.threatAssessment
                 emergency == threat.action = "emergency_escalation"
             IN  /\ Len(silentDispatches') = Len(silentDispatches) + 1
                 /\ dispatch.id = reply'.escalation.dispatchId
                 /\ dispatch.threatScore = threat.score
                 /\ emergency <=> threat.score >= Tenths(9)
                 /\ dispatch.emergencyServicesNotified <=> emergency
                 /\ Has112(reply'.escalation.actions) <=> emergency
       /\ (Answered("force-threat-level") /\ reply'.status = 200
           /\ reply'.threatAssessment.score = 285000) =>
             /\ reply'.threatAssessment.level = "critical"
             /\ reply'.threatAssessment.action = "emergency_escalation"
             /\ Len(silentDispatches') > Len(silentDispatches)
             /\ \A s \in SessionIds : MonitorStatus(s)' = "emergency"]_vars

\* the answer to a forced score of 0.95, with its dispatch marked and the 112
\* entry in its actions
C15_ForcedEmergency ==
    /\ HasAssessment(reply)
    /\ reply.kind = "force-threat-level"
    /\ reply.threatAssessment.score = 285000
    /\ Has112(reply.escalation.actions)
    /\ \E k \in 1..Len(silentDispatches) :
          /\ silentDispatches[k].id = reply.escalation.dispatchId
          /\ silentDispatches[k].emergencyServicesNotified

\* the answer to a location update more than 100 m off the confirmed route
DeviationSample(r) ==
    /\ HasAssessment(r)
    /\ r.kind = "update-location"
    /\ r.threatAssessment.factors.routeDeviation > 0

DeviationPointCount(s) ==
    IF deviationHistories[s] = 0 THEN 0 ELSE Len(devArrays[deviationHistories[s]])

\* C16: a deviation sample that arrives less than 20 s after the previous
\* sample, itself a deviation sample, adds no DeviationPoint to the session's
\* deviation history
C16_OnePointPerDeviation ==
    [][\A s \in SessionIds :
          (/\ DeviationSample(reply)
           /\ DeviationSample(reply')
           /\ reply' # reply
           /\ reply'.threatAssessment.timestamp - reply.threatAssessment.timestamp
                 < 2 * LOCATION_UPDATE_INTERVAL)
          => DeviationPointCount(s)' = DeviationPointCount(s)]_vars

\* the answers of calculateRouteDeviationScore for two distances d1 < d2 that
\* are both above the 100 m corridor
DeviationPair ==
    /\ ReturnOf("calculateRouteDeviationScore")
    /\ distanceFromRoute(reply.args.location1, EngineRoute) > SAFE_CORRIDOR_RADIUS
    /\ distanceFromRoute(reply.args.location1, EngineRoute)
          < distanceFromRoute(reply.args.location2, EngineRoute)

\* C17 (as stated): for a fixed deviation history and distances d1 < d2 above
\* the corridor, the route-deviation score at d2 is strictly greater than at d1
C17_StrictlyMonotone ==
    DeviationPair => reply.result[2] > reply.result[1]

\* C17 (amended): for a fixed deviation history and distances d1 < d2 above the
\* corridor, the score at d2 is strictly greater than at d1 when d1 is below
\* 1 km, and equal to it when d1 is 1 km or more
C17_MonotoneUpToCap ==
    DeviationPair =>
        IF distanceFromRoute(reply.args.location1, EngineRoute) < 1000
        THEN reply.result[2] > reply.result[1]
        ELSE reply.result[2] = reply.result[1]

\* two distances below and above 1 km, with a history whose deviation time
\* saturates the time component
C17_SaturatedHistoryPair ==
    /\ DeviationPair
    /\ distanceFromRoute(reply.args.location1, EngineRoute) = 999
    /\ distanceFromRoute(reply.args.location2, EngineRoute) = 1001
    /\ SumDurations(reply.args.deviationHistory, 1) >= RecentDeviationWindow
    /\ reply.result[2] = ScoreOne

\* the pair (h[i - 1], h[i]) is travelled at less than 1 m/s
SlowPair(h, i) ==
    \/ h[i].timestamp - h[i - 1].timestamp <= 0
    \/ calculateDistance(h[i - 1], h[i]) * 1000 < h[i].timestamp - h[i - 1].timestamp

\* the maximal runs of consecutive slow pairs a..b of a history
StopRuns(h) ==
    {r \in (2..Len(h)) \X (2..Len(h)) :
        /\ r[1] <= r[2]
        /\ \A i \in r[1]..r[2] : SlowPair(h, i)
        /\ r[1] = 2 \/ ~SlowPair(h, r[1] - 1)
        /\ r[2] = Len(h) \/ ~SlowPair(h, r[2] + 1)}

\* the summed time differences of the pairs a..b
RunTime(h, r) == h[r[2]].timestamp - h[r[1] - 1].timestamp

LongStops(h) == {r \in StopRuns(h) : RunTime(h, r) > SUSPICIOUS_STOP_DURATION}

\* C18: calculateSuspiciousStopsScore is min(count / 3, 1), count being the
\* number of maximal slow runs lasting more than 60000 ms, closed or still open
\* at the end of the history; a run of exactly 60000 ms adds nothing, and a
\* history holding a 65 s stop that ends scores at least 1/3
C18_StopsScore ==
    ReturnOf("calculateSuspiciousStopsScore") =>
        LET h == reply.args.locationHistory
        IN  /\ reply.result
                  = Min((Cardinality(LongStops(h)) * ScoreOne) \div 3, ScoreOne)
            /\ (\A r \in StopRuns(h) : RunTime(h, r) <= SUSPICIOUS_STOP_DURATION)
                  => reply.result = 0
            /\ (\E r \in StopRuns(h) : RunTime(h, r) = 65000 /\ r[2] < Len(h))
                  => reply.result >= ScoreOne \div 3

\* a stop of exactly 60000 ms that ends, followed by a 65 s stop that ends:
\* the score is 1/3
C18_ExactMinuteThenLongStop ==
    /\ ReturnOf("calculateSuspiciousStopsScore")
    /\ \E r \in StopRuns(reply.args.locationHistory) :
          /\ RunTime(reply.args.locationHistory, r) = SUSPICIOUS_STOP_DURATION
          /\ r[2] < Len(reply.args.locationHistory)
    /\ \E r \in StopRuns(reply.args.locationHistory) :
          /\ RunTime(reply.args.locationHistory, r) = 65000
          /\ r[2] < Len(reply.args.locationHistory)
    /\ Cardinality(LongStops(reply.args.locationHistory)) = 1
    /\ reply.result = ScoreOne \div 3

\* the number of existing reports by the reporter of the report, less than
\* 24 h old
SameReporterRecentCount(report, existing, clock) ==
    Cardinality({i \in 1..Len(existing) :
                    /\ existing[i].reporterId = report.reporterId
                    /\ clock - existing[i].timestamp < 86400000})

\* the number of existing reports less than 500 m from the report and less than
\* an hour old
RecentAreaCount(report, existing, clock) ==
    Cardinality({i \in 1..Len(existing) :
                    /\ Abs(existing[i].location.x - report.location.x) < 500
                    /\ clock - existing[i].timestamp < 3600000})

\* C19: validateCommunityReport rejects with the reason of the first failing
\* rule, in the order trust below 0.3, more than 5 recent reports by the same
\* reporter, more than 10 recent reports in the area; a rejected report has
\* valid = false and weight = 0, and a report failing no rule has valid = true
C19_RulesInOrder ==
    ReturnOf("validateCommunityReport") =>
        LET report == reply.args.report
            frequent == SameReporterRecentCount(report, reply.args.existingReports, now) > 5
            crowded == RecentAreaCount(report, reply.args.existingReports, now) > 10
            result == reply.result
        IN  /\ result.valid = FALSE => result.weight = 0
            /\ IF report.reporterTrustScore < Tenths(3)
               THEN ~result.valid /\ result.reason = "Reporter trust score too low"
               ELSE IF frequent
               THEN ~result.valid /\ result.reason = "Suspicious reporting frequency"
               ELSE IF crowded
               THEN ~result.valid /\ result.reason = "Possible coordinated manipulation"
               ELSE result.valid = TRUE

\* a report of trust 0.2 that also fails the frequency and the area rule is
\* rejected for its trust score
C19_LowTrustDecides ==
    /\ ReturnOf("validateCommunityReport")
    /\ reply.args.report.reporterTrustScore = Tenths(2)
    /\ SameReporterRecentCount(reply.args.report, reply.args.existingReports, now) > 5
    /\ RecentAreaCount(reply.args.report, reply.args.existingReports, now) > 10
    /\ reply.result.valid = FALSE
    /\ reply.result.weight = 0
    /\ reply.result.reason = "Reporter trust score too low"

\* the zone exposure of a route, averaged over its waypoints
AveragedRisk(route, zones) ==
    SumFrom([i \in 1..Len(route.waypoints) |->
                calculateHighRiskZoneScore(route.waypoints[i], zones)], 1)
        \div Len(route.waypoints)

\* the score of a route without community reports: 1 - 0.9 * riskScore
ZoneOnlyScore(route, zones) == ScoreOne - (AveragedRisk(route, zones) * 9) \div 10

\* C20: whatever the community reports, calculateRouteSafetyScore lies in
\* [0, 1], is at most 1 - 0.9 * riskScore and at least
\* max(0, 1 - 0.9 * riskScore - 0.1)
C20_CommunityInfluenceCapped ==
    ReturnOf("calculateRouteSafetyScore") =>
        LET zoneOnly == ZoneOnlyScore(reply.args.route, reply.args.highRiskZones)
        IN  /\ reply.result >= 0
            /\ reply.result <= ScoreOne
            /\ reply.result <= zoneOnly
            /\ reply.result >= Max(0, zoneOnly - Tenths(1))

\* three unsafe reports of full trust next to every waypoint of a route that
\* crosses risk zones: the score is the zone-only score less exactly 0.1
C20_ReportsAtTheCap ==
    /\ ReturnOf("calculateRouteSafetyScore")
    /\ Len(reply.args.communityReports) = 3
    /\ \A i \in 1..3 : /\ reply.args.communityReports[i].type = "unsafe_area"
                       /\ reply.args.communityReports[i].reporterTrustScore = ScoreOne
    /\ AveragedRisk(reply.args.route, reply.args.highRiskZones) > 0
    /\ reply.result = ZoneOnlyScore(reply.args.route, reply.args.highRiskZones) - Tenths(1)

\* the assessments a step appends to a threat history
NewAssessments ==
    {threatArrays'[r][Len(threatArrays'[r])] :
        r \in {q \in 1..Len(threatArrays') :
                  /\ Len(threatArrays'[q]) > 0
                  /\ q > Len(threatArrays) \/ threatArrays'[q] # threatArrays[q]}}

\* the caller holds the result of a call of fn
Holds(fn) == reply # NULL /\ reply.kind = "return" /\ reply.fn = fn

\* calculateLocationDisabledScore as a table
DisabledTable(locationEnabled, t) ==
    IF ~locationEnabled THEN ScoreOne
    ELSE IF t <= 30000 THEN 0
    ELSE IF t <= 60000 THEN Tenths(4)
    ELSE Tenths(8)

\* C21: calculateLocationDisabledScore is 1 when location is disabled, whatever
\* the staleness; otherwise 0 up to 30000 ms, 0.4 above 30000 and up to 60000 ms,
\* 0.8 above 60000 ms; and every assessment the location-disabled event appends
\* has locationDisabled factor 1
C21_LocationDisabledScore ==
    /\ [](Holds("calculateLocationDisabledScore") =>
             reply.result = DisabledTable(reply.args.locationEnabled,
                                          reply.args.timeSinceLastUpdate))
    /\ [][\A a \in NewAssessments : a.factors.locationDisabled = ScoreOne]_vars

\* after a location-disabled event has stored its assessment, a call with
\* location enabled and exactly 60000 ms of staleness returns 0.4
C21_StoredAndBoundary ==
    /\ Holds("calculateLocationDisabledScore")
    /\ reply.args.locationEnabled
    /\ reply.args.timeSinceLastUpdate = 60000
    /\ reply.result = Tenths(4)
    /\ \E s \in SessionIds :
          /\ monitorSessions[s] # 0
          /\ Len(threatArrays[StoredSession(s).threatHistory]) = 1
          /\ threatArrays[StoredSession(s).threatHistory][1].factors.locationDisabled = ScoreOne

\* C27: every assessment the location-disabled event appends has a score of
\* 0.4 or more
C27_DisabledAtLeastMedium ==
    [][\A a \in NewAssessments : a.score >= SOFT_ALERT]_vars

\* C22: assessThreat called without a current location returns an assessment
\* whose routeDeviation factor is 0.5 and whose highRiskZone factor is 0,
\* whatever the deviation history and the zones; the two other factors are the
\* stop score of the history and the location-disabled score of the staleness
C22_UnknownLocationDefaults ==
    (ReturnOf("assessThreat") /\ reply.args.currentLocation = NULL) =>
        /\ reply.result.factors.routeDeviation = ScoreOne \div 2
        /\ reply.result.factors.highRiskZone = 0
        /\ reply.result.factors.suspiciousStops
              = calculateSuspiciousStopsScore(reply.args.locationHistory)
        /\ reply.result.factors.locationDisabled
              = calculateLocationDisabledScore(reply.args.locationEnabled,
                                               now - reply.args.lastUpdateTime)
        /\ reply.result.score = WeightedScore(reply.result.factors)
        /\ reply.result.level = LevelOf(reply.result.score)

\* no current location, a zone of risk 1 over the whole route and 300 s of
\* recent deviation: the factors are 0.5 and 0
C22_UnknownInsideZone ==
    /\ ReturnOf("assessThreat")
    /\ reply.args.currentLocation = NULL
    /\ reply.args.highRiskZones = << ZoneAround(800, ScoreOne) >>
    /\ reply.args.deviationHistory = << DeviationOf(300000) >>
    /\ reply.result.factors.routeDeviation = ScoreOne \div 2
    /\ reply.result.factors.highRiskZone = 0

\* what one zone contributes at a location: riskLevel inside the radius,
\* riskLevel * (1 - (d - radius) / radius) up to twice the radius, 0 beyond
ZoneContribution(location, zone) ==
    LET d == Abs(location.x - zone.center.x)
    IN  IF d <= zone.radius THEN zone.riskLevel
        ELSE IF d <= 2 * zone.radius
             THEN (zone.riskLevel * (zone.radius - (d - zone.radius))) \div zone.radius
             ELSE 0

\* the largest contribution of a list of zones, 0 for an empty list
LargestContribution(location, zones) ==
    LET C == {ZoneContribution(location, zones[i]) : i \in 1..Len(zones)} \cup {0}
    IN  CHOOSE m \in C : \A c \in C : c <= m

\* C23: calculateHighRiskZoneScore is the largest of its zones' contributions,
\* never their sum; with a zone added the result is the larger of the previous
\* result and the added zone's contribution, so never lower; 500 m from the
\* centre of a zone of radius 300 and risk 0.7 the contribution is
\* 0.7 * (1 - 200 / 300)
C23_MaxOverZones ==
    ReturnOf("calculateHighRiskZoneScore") =>
        LET location == reply.args.currentLocation
            zones == reply.args.highRiskZones
            added == ZoneContribution(location, reply.args.added)
        IN  /\ reply.result[1] = LargestContribution(location, zones)
            /\ reply.result[2] >= reply.result[1]
            /\ reply.result[2] = Max(reply.result[1], added)
            /\ (zones = << >> /\ reply.args.added.id = "hrz-7" /\ location.x = 1800)
                  => reply.result[2] = (Tenths(7) * 100) \div 300

\* inside two zones, with a third zone added that is 500 m away: the result
\* stays the larger of the two risks, less than their sum
C23_TwoZonesAndOneMore ==
    /\ ReturnOf("calculateHighRiskZoneScore")
    /\ reply.args.currentLocation.x = 1450
    /\ Len(reply.args.highRiskZones) = 2
    /\ reply.args.highRiskZones[1].id = "hrz-4"
    /\ reply.args.highRiskZones[2].id = "hrz-9"
    /\ reply.args.added.id = "hrz-7"
    /\ reply.result[1] = 270000
    /\ reply.result[2] = 270000

\* a monitoring request without a session in its body, for a session the
\* monitor route does not hold
UnknownMonitorRequest ==
    \E s \in SessionIds :
       /\ monitorSessions[s] = 0
       /\ \/ UpdateLocation(UnknownEnv, s, Loc(2800, now), TRUE, NULL)
          \/ \E l \in {NULL, Loc(2800, now)} : LocationDisabled(UnknownEnv, s, l, NULL)
          \/ NetworkLoss(UnknownEnv, s, Loc(2800, now), 60000, NULL)
          \/ ManualEmergency(UnknownEnv, s, Loc(2800, now), NULL)
          \/ \E f \in {30000, 285000} :
                ForceThreatLevel(UnknownEnv, s, Loc(2800, now), f, NULL)

\* a ride request for a session the ride route does not hold
UnknownRideRequest ==
    \E s \in SessionIds :
       /\ rideSessions[s] = NULL
       /\ \/ ConfirmRoute(UnknownEnv, s, "route-0")
          \/ GetSession(UnknownEnv, s)
          \/ \E reason \in {"completed", "emergency"} : EndRide(UnknownEnv, s, reason)

\* C24: a request of either route that names a session the route does not hold,
\* and carries no session, is answered 404 'Session not found' and leaves the
\* sessions, histories, deviation histories, dispatches and mailbox as they were
C24_UnknownSessionChangesNothing ==
    [][(UnknownMonitorRequest \/ UnknownRideRequest) =>
          /\ reply'.status = 404
          /\ reply'.error = "Session not found"
          /\ UNCHANGED << rideSessions, monitorSessions, sessions, locArrays, threatArrays,
                          deviationHistories, devArrays, devPoints, silentDispatches,
                          inflight, delivered >>]_vars

\* two requests for a session nobody holds, the second a forced threat level:
\* 'Session not found', and nothing exists
C24_NothingCreated ==
    /\ nreq = 2
    /\ reply # NULL
    /\ reply.kind = "force-threat-level"
    /\ reply.status = 404
    /\ reply.error = "Session not found"
    /\ \A s \in SessionIds : monitorSessions[s] = 0 /\ rideSessions[s] = NULL
                                /\ deviationHistories[s] = 0
    /\ sessions = << >>
    /\ silentDispatches = << >>

\* POST create while every request to the routing provider fails
CreateWithoutProvider == CreateRide(CreateEnv, NULL, << NULL, NULL >>)

\* C25: a session created while the routing provider fails has a confirmed
\* route of exactly two waypoints with safetyScore 0.5, that route is its only
\* alternative, and the session is in status setup
C25_FallbackRoute ==
    [][CreateWithoutProvider =>
          \E s \in SessionIds :
             /\ rideSessions[s] = NULL
             /\ rideSessions'[s] # NULL
             /\ rideSessions'[s].status = "setup"
             /\ Len(rideSessions'[s].confirmedRoute.waypoints) = 2
             /\ rideSessions'[s].alternativeRoutes = << rideSessions'[s].confirmedRoute >>
             /\ rideSessions'[s].confirmedRoute.safetyScore = ScoreOne \div 2]_vars

\* the edges of the session state machine: created in setup, setup -> active,
\* active -> completed | emergency | cancelled
StatusEdge(from, to) ==
    \/ from = to
    \/ from = "none" /\ to = "setup"
    \/ from = "setup" /\ to = "active"
    \/ from = "active" /\ to \in {"completed", "emergency", "cancelled"}

\* C26: the status of a session of the ride route only moves along the edges
\* none -> setup -> active -> completed | emergency | cancelled
C26_StatusEdges ==
    [][\A s \in SessionIds : StatusEdge(RideStatus(s), RideStatus(s)')]_vars

\* C28: every assessment held in a threat history has the level and the action
\* that the threshold table of assessThreat gives to its score
C28_StoredAssessmentsConsistent ==
    \A r \in 1..Len(threatArrays) :
       \A i \in 1..Len(threatArrays[r]) :
          /\ threatArrays[r][i].level = LevelOf(threatArrays[r][i].score)
          /\ threatArrays[r][i].action = ActionOf(threatArrays[r][i].score)

\* the deviation points of the deviation history stored for a session
StoredDeviationPoints(s) ==
    IF deviationHistories[s] = 0 THEN {}
    ELSE {devPoints[devArrays[deviationHistories[s]][i]] :
             i \in 1..Len(devArrays[deviationHistories[s]])}

\* C29: every DeviationPoint of a stored deviation history has a duration
\* between 0 and the time elapsed since its timestamp
C29_DurationWithinElapsed ==
    \A s \in SessionIds :
       \A d \in StoredDeviationPoints(s) :
          d.duration >= 0 /\ d.duration <= now - d.timestamp

\* C30: for a report with a trust score in [0, 1], whatever its timestamp, the
\* weight validateCommunityReport returns is at least 0 and at most MAX_WEIGHT
C30_WeightWithinCap ==
    (/\ ReturnOf("validateCommunityReport")
     /\ reply.args.report.reporterTrustScore >= 0
     /\ reply.args.report.reporterTrustScore <= ScoreOne)
    => (reply.result.weight >= 0 /\ reply.result.weight <= MAX_WEIGHT)

====
